---------------------------- MODULE Spec2Model ----------------------------
(***************************************************************************)
(* PurpleHammer: the chat moderation bot of src/src/chat.rs and            *)
(* src/src/checker.rs, modelled as a state machine.                        *)
(*                                                                         *)
(* Strings.  A Rust String is modelled as a sequence of characters, each   *)
(* character a one-character TLA+ string, so that trim, find, slicing,     *)
(* case and concatenation are computed and not assumed.  A long literal    *)
(* that the program only stores or compares for equality as a whole (an    *)
(* announcement, a capability name, the host part of a prefix) is written  *)
(* as a single element of such a sequence.  Match keys that never mix with *)
(* other strings (tag keys, command names, mode codes) are TLA+ strings.   *)
(*                                                                         *)
(* Option<T>.  None is the empty sequence and Some(x) is <<x>>.            *)
(***************************************************************************)
EXTENDS Integers, Sequences, FiniteSets, TLC

None == <<>>
Some(x) == <<x>>
IsSome(o) == o # <<>>
Unwrap(o) == o[1]

---------------------------------------------------------------------------
(* Bounds of the model.                                                    *)

\* now_utc() is the wall clock: it returns some time in 1..MaxTime.
MaxTime == 2

\* The longest prefix, capability list and CLEARCHAT tag list of the raw
\* messages of SpecClassifier.
MaxPrefixLen == 4
MaxCapNames == 2
MaxClearTags == 2

\* The most items the source of SpecFinite yields before it ends.
MaxItems == 3

Times == 1..MaxTime

---------------------------------------------------------------------------
(* String helpers: what the Rust standard library does on the strings the  *)
(* program hands it.                                                       *)

\* char::is_whitespace on the characters of the model's alphabet.
WhiteSpace == {" ", "\t", "\n", "\r"}

RECURSIVE TrimStart(_)
TrimStart(s) ==
    IF s # <<>> /\ Head(s) \in WhiteSpace THEN TrimStart(Tail(s)) ELSE s

RECURSIVE TrimEnd(_)
TrimEnd(s) ==
    IF s # <<>> /\ s[Len(s)] \in WhiteSpace
    THEN TrimEnd(SubSeq(s, 1, Len(s) - 1))
    ELSE s

\* str::trim
Trim(s) == TrimEnd(TrimStart(s))

\* str::find(char), were it to return the position of the last occurrence.
FindLast(s, c) ==
    IF \E i \in 1..Len(s) : s[i] = c
    THEN Some((CHOOSE i \in 1..Len(s) :
                  s[i] = c /\ \A j \in (i + 1)..Len(s) : s[j] # c) - 1)
    ELSE None

\* str::find(char): the 0-based position of the first occurrence.
Find(s, c) ==
    IF \E i \in 1..Len(s) : s[i] = c
    THEN Some((CHOOSE i \in 1..Len(s) :
                  s[i] = c /\ \A j \in 1..(i - 1) : s[j] # c) - 1)
    ELSE None

UpperCase == <<"A","B","C","D","E","F","G","H","I","J","K","L","M",
               "N","O","P","Q","R","S","T","U","V","W","X","Y","Z">>
LowerCase == <<"a","b","c","d","e","f","g","h","i","j","k","l","m",
               "n","o","p","q","r","s","t","u","v","w","x","y","z">>

ToLowerChar(c) ==
    IF \E i \in 1..Len(UpperCase) : UpperCase[i] = c
    THEN LowerCase[CHOOSE i \in 1..Len(UpperCase) : UpperCase[i] = c]
    ELSE c

\* str::to_lowercase, were it to leave the string as it is.
ToLowercaseAsGiven(s) == s

\* str::to_lowercase
ToLowercase(s) == [i \in 1..Len(s) |-> ToLowerChar(s[i])]

Digits == <<"0","1","2","3","4","5","6","7","8","9">>
IsDigit(c) == \E i \in 1..10 : Digits[i] = c
DigitVal(c) == (CHOOSE i \in 1..10 : Digits[i] = c) - 1

\* u32::MAX is 4294967295 = U32MaxDiv10 * 10 + U32MaxMod10.
U32MaxDiv10 == 429496729
U32MaxMod10 == 5

\* The digits of s folded into acc; "overflow" past u32::MAX.
RECURSIVE ParseDigits(_, _)
ParseDigits(s, acc) ==
    IF s = <<>> THEN [ok |-> TRUE, val |-> acc]
    ELSE LET d == DigitVal(Head(s)) IN
         IF acc > U32MaxDiv10 \/ (acc = U32MaxDiv10 /\ d > U32MaxMod10)
         THEN [ok |-> FALSE, val |-> 0]
         ELSE ParseDigits(Tail(s), acc * 10 + d)

\* u32::from_str: an optional '+', then one or more decimal digits, no
\* overflow.  (Values from 2^31 up are outside TLC's integers; the model feeds
\* none.)
U32FromStr(s) ==
    LET body == IF s # <<>> /\ Head(s) = "+" THEN Tail(s) ELSE s IN
    IF body = <<>> \/ \E i \in 1..Len(body) : ~IsDigit(body[i])
    THEN [ok |-> FALSE, val |-> 0]
    ELSE ParseDigits(body, 0)

\* str::split_whitespace: the maximal runs of non-whitespace characters.
RECURSIVE SplitWs(_, _, _)
SplitWs(s, cur, acc) ==
    IF s = <<>> THEN (IF cur = <<>> THEN acc ELSE Append(acc, cur))
    ELSE IF Head(s) \in WhiteSpace
         THEN SplitWs(Tail(s), <<>>,
                      IF cur = <<>> THEN acc ELSE Append(acc, cur))
         ELSE SplitWs(Tail(s), Append(cur, Head(s)), acc)

SplitWhitespace(s) == SplitWs(s, <<>>, <<>>)

---------------------------------------------------------------------------
(* Program constants.                                                      *)

CAP_MEMBERSHIP == <<"twitch.tv/membership">>
CAP_COMMANDS == <<"twitch.tv/commands">>
CAP_TAGS == <<"twitch.tv/tags">>

\* The two phrases process_message compares the message text with.
HAMMER_ON == <<":","h","a","m","m","e","r"," ","o","n">>
HAMMER_OFF == <<":","h","a","m","m","e","r"," ","o","f","f">>

\* The two announcements process_message sends (the first without the warning
\* sign that leads it in the source).
ANNOUNCE_ON == <<"ATTENTION : Hammer mode has been enabled. Please refrain from sending messages that could look like what a bot would say!">>
ANNOUNCE_OFF == <<"Hammer mode has been disabled. I'll stop banning now!">>

\* The sanction line, were it a timeout instead of a ban.
BanCommandTimeout(nickname) ==
    <<"/","t","i","m","e","o","u","t"," ">> \o nickname

\* format!("/ban {}", nickname)
BanCommand(nickname) == <<"/","b","a","n"," ">> \o nickname

\* The NOTICE text parse_message maps to InvalidAuthToken.
LOGIN_FAILED == "Login authentication failed"

\* The configuration Chat::new reads: conf.channel and conf.username.
ConfChannel == <<"C","h","a","n">>
ConfUsername == <<"b","o","t">>

---------------------------------------------------------------------------
(* Checker (src/src/checker.rs).                                           *)

\* Checker::new: the ban list.
ban_list == << <<"b","a","n"," ","m","e","!">>,
               <<"h","e","l","l","o">> >>

\* Checker::check, were it to compare without regard to case.
CheckIgnoreCase(input) ==
    \E i \in 1..Len(ban_list) : ToLowercase(ban_list[i]) = ToLowercase(input)

\* Checker::check: any entry equal to the input.
Check(input) == \E i \in 1..Len(ban_list) : ban_list[i] = input

---------------------------------------------------------------------------
(* MessageTagData and its parser.  A Tag is <<key, val_opt>>.              *)

\* TwitchUserType::from(String)
UserTypeFrom(input) ==
    CASE input = <<>> -> [variant |-> "None", value |-> <<>>]
      [] input = <<"mod">> -> [variant |-> "Mod", value |-> <<>>]
      [] input = <<"global_mod">> -> [variant |-> "GlobalMod", value |-> <<>>]
      [] input = <<"admin">> -> [variant |-> "Admin", value |-> <<>>]
      [] input = <<"staff">> -> [variant |-> "Staff", value |-> <<>>]
      [] OTHER -> [variant |-> "Other", value |-> input]

\* MessageTagData { ..Default::default() }
DefaultTagData ==
    [color |-> None, display_name |-> None, id |-> None, is_mod |-> None,
     is_subscriber |-> None, is_turbo |-> None, room_id |-> None,
     user_id |-> None, user_type |-> None]

\* The flag of a tag, were every value but the empty one to count as true.
TagFlagNonEmpty(val) == val # <<>>

\* from_tags: the flag of a "mod", "subscriber" or "turbo" tag, val == "1".
TagFlag(val) == val = <<"1">>

\* One iteration of the loop of from_tags on a tag that has a value: the
\* updated result, or the early return of an error.
FromTagsStep(result, key, val) ==
    CASE key = "badges" -> [ok |-> TRUE, data |-> result]
      [] key = "color" ->
            [ok |-> TRUE, data |-> [result EXCEPT !.color = Some(val)]]
      [] key = "display-name" ->
            [ok |-> TRUE, data |-> [result EXCEPT !.color = Some(val)]]
      [] key = "emotes" -> [ok |-> TRUE, data |-> result]
      [] key = "id" ->
            [ok |-> TRUE, data |-> [result EXCEPT !.id = Some(val)]]
      [] key = "mod" ->
            [ok |-> TRUE,
             data |-> [result EXCEPT !.is_mod = Some(TagFlag(val))]]
      [] key = "subscriber" ->
            [ok |-> TRUE,
             data |-> [result EXCEPT !.is_subscriber = Some(TagFlag(val))]]
      [] key = "turbo" ->
            [ok |-> TRUE,
             data |-> [result EXCEPT !.is_turbo = Some(TagFlag(val))]]
      [] key = "room-id" ->
            LET parsed == U32FromStr(val) IN
            IF parsed.ok
            THEN [ok |-> TRUE,
                  data |-> [result EXCEPT !.room_id = Some(parsed.val)]]
            ELSE [ok |-> FALSE, data |-> result]
      [] key = "user-id" ->
            LET parsed == U32FromStr(val) IN
            IF parsed.ok
            THEN [ok |-> TRUE,
                  data |-> [result EXCEPT !.user_id = Some(parsed.val)]]
            ELSE [ok |-> FALSE, data |-> result]
      [] key = "user-type" ->
            [ok |-> TRUE,
             data |-> [result EXCEPT !.user_type = Some(UserTypeFrom(val))]]
      [] OTHER -> [ok |-> TRUE, data |-> result]

RECURSIVE FromTagsLoop(_, _)
FromTagsLoop(tags, result) ==
    IF tags = <<>> THEN [ok |-> TRUE, data |-> result]
    ELSE LET key == Head(tags)[1]
             val_opt == Head(tags)[2]
         IN  IF IsSome(val_opt)
             THEN LET step == FromTagsStep(result, key, Unwrap(val_opt)) IN
                  IF step.ok THEN FromTagsLoop(Tail(tags), step.data)
                  ELSE [ok |-> FALSE, data |-> result]
             ELSE FromTagsLoop(Tail(tags), result)

\* MessageTagData::from_tags, were it to return what it has parsed up to the
\* tag that fails instead of the error.
FromTagsPartial(tags) ==
    [ok |-> TRUE, data |-> FromTagsLoop(tags, DefaultTagData).data]

\* MessageTagData::from_tags: Ok(data) or Err.
FromTags(tags) == FromTagsLoop(tags, DefaultTagData)

\* RoomStateTags::from_tags_list
RECURSIVE RoomStateLoop(_, _)
RoomStateLoop(tags, result) ==
    IF tags = <<>> THEN result
    ELSE LET key == Head(tags)[1]
             val_opt == Head(tags)[2]
             val == Unwrap(val_opt)
         IN  IF IsSome(val_opt)
             THEN RoomStateLoop(Tail(tags),
                    CASE key = "language" ->
                            [result EXCEPT !.language = Some(val)]
                      [] key = "r9k" ->
                            [result EXCEPT !.r9k = Some(val = <<"1">>)]
                      [] key = "subs-only" ->
                            [result EXCEPT !.subs_only = Some(val = <<"1">>)]
                      [] key = "slow" ->
                            [result EXCEPT !.slow = Some(val = <<"1">>)]
                      [] OTHER -> result)
             ELSE RoomStateLoop(Tail(tags), result)

RoomStateFromTagsList(tags) ==
    RoomStateLoop(tags, [language |-> None, r9k |-> None,
                         subs_only |-> None, slow |-> None])

---------------------------------------------------------------------------
(* The protocol classifier.  A raw message is                              *)
(*   [tags |-> Option(sequence of Tag), prefix |-> Option(string),         *)
(*    command |-> [name |-> ..., ...]]                                     *)
(* and a ChatMessage is a record with a kind and the variant's payload.    *)

\* Chat::parse_user_name_from_prefix
ParseUserNameFromPrefix(prefix) ==
    LET pos == Find(prefix, "!") IN
    IF IsSome(pos) THEN Some(SubSeq(prefix, 1, Unwrap(pos))) ELSE None

\* Chat::parse_user_name_from_message
ParseUserNameFromMessage(message) ==
    IF IsSome(message.prefix)
    THEN ParseUserNameFromPrefix(Unwrap(message.prefix))
    ELSE None

\* Command::PRIVMSG, were a message without tags read as one with an empty
\* tag list.
ParsePrivmsgUntagged(message) ==
    IF IsSome(message.prefix)
    THEN LET parsed == FromTags(IF IsSome(message.tags)
                                THEN Unwrap(message.tags) ELSE <<>>)
             nickname == ParseUserNameFromPrefix(Unwrap(message.prefix))
         IN  IF parsed.ok /\ IsSome(nickname)
             THEN Some([kind |-> "Message", nickname |-> Unwrap(nickname),
                        msg |-> message.command.msg, tags |-> parsed.data])
             ELSE None
    ELSE None

\* parse_message, Command::PRIVMSG
ParsePrivmsg(message) ==
    IF IsSome(message.tags)
    THEN IF IsSome(message.prefix)
         THEN LET parsed == FromTags(Unwrap(message.tags)) IN
              IF parsed.ok
              THEN LET nickname ==
                          ParseUserNameFromPrefix(Unwrap(message.prefix))
                   IN  IF IsSome(nickname)
                       THEN Some([kind |-> "Message",
                                  nickname |-> Unwrap(nickname),
                                  msg |-> message.command.msg,
                                  tags |-> parsed.data])
                       ELSE None
              ELSE None
         ELSE None
    ELSE None

\* parse_message, Command::CAP
ParseCap(message) ==
    IF message.command.sub = "ACK"
    THEN IF IsSome(message.command.param)
         THEN Some([kind |-> "Capability",
                    caps |-> SplitWhitespace(Unwrap(message.command.param))])
         ELSE None
    ELSE None

\* Command::MODE, were every mode code but "-o" read as a grant.
ParseModeGrantsByDefault(message) ==
    IF IsSome(message.command.nickname)
    THEN Some([kind |-> "Operator",
               nickname |-> Unwrap(message.command.nickname),
               is_op |-> message.command.mode # "-o"])
    ELSE None

\* parse_message, Command::MODE
ParseMode(message) ==
    IF IsSome(message.command.nickname)
    THEN CASE message.command.mode = "+o" ->
                 Some([kind |-> "Operator",
                       nickname |-> Unwrap(message.command.nickname),
                       is_op |-> TRUE])
           [] message.command.mode = "-o" ->
                 Some([kind |-> "Operator",
                       nickname |-> Unwrap(message.command.nickname),
                       is_op |-> FALSE])
           [] OTHER -> None
    ELSE None

\* parse_message, Command::NOTICE
ParseNotice(message) ==
    IF message.command.content = LOGIN_FAILED
    THEN Some([kind |-> "InvalidAuthToken"])
    ELSE None

\* parse_message, Command::JOIN and Command::PART
ParseJoinPart(message, kind) ==
    LET nickname == ParseUserNameFromMessage(message) IN
    IF IsSome(nickname)
    THEN Some([kind |-> kind, nickname |-> Unwrap(nickname)])
    ELSE None

\* The loop over the tags of a targeted CLEARCHAT.
RECURSIVE ClearChatLoop(_, _, _)
ClearChatLoop(tags, duration, reason) ==
    IF tags = <<>> THEN [duration |-> duration, reason |-> reason]
    ELSE LET key == Head(tags)[1]
             val_opt == Head(tags)[2]
             val == Unwrap(val_opt)
         IN  IF IsSome(val_opt)
             THEN CASE key = "ban-duration" ->
                          ClearChatLoop(Tail(tags),
                              IF U32FromStr(val).ok
                              THEN Some(U32FromStr(val).val) ELSE None,
                              reason)
                    [] key = "ban-reason" ->
                          ClearChatLoop(Tail(tags), duration, Some(val))
                    [] OTHER -> ClearChatLoop(Tail(tags), duration, reason)
             ELSE ClearChatLoop(Tail(tags), duration, reason)

\* Command::Raw("CLEARCHAT", ..), were a targeted CLEARCHAT without tags read
\* as a ban without reason.
ParseClearChatUntagged(message) ==
    IF IsSome(message.command.suffix)
    THEN LET nickname == Unwrap(message.command.suffix)
             r == ClearChatLoop(IF IsSome(message.tags)
                                THEN Unwrap(message.tags) ELSE <<>>,
                                None, None)
         IN  IF IsSome(r.duration)
             THEN Some([kind |-> "Timeout", nickname |-> nickname,
                        duration |-> Unwrap(r.duration),
                        reason |-> r.reason])
             ELSE Some([kind |-> "Ban", nickname |-> nickname,
                        reason |-> r.reason])
    ELSE Some([kind |-> "Clear"])

\* parse_message, Command::Raw("CLEARCHAT", ..)
ParseClearChat(message) ==
    IF IsSome(message.command.suffix)
    THEN IF IsSome(message.tags)
         THEN LET nickname == Unwrap(message.command.suffix)
                  r == ClearChatLoop(Unwrap(message.tags), None, None)
              IN  IF IsSome(r.duration)
                  THEN Some([kind |-> "Timeout", nickname |-> nickname,
                             duration |-> Unwrap(r.duration),
                             reason |-> r.reason])
                  ELSE Some([kind |-> "Ban", nickname |-> nickname,
                             reason |-> r.reason])
         ELSE None
    ELSE Some([kind |-> "Clear"])

\* parse_message, Command::Raw("ROOMSTATE", ..)
ParseRoomState(message) ==
    IF IsSome(message.tags)
    THEN Some([kind |-> "RoomState",
               tags |-> RoomStateFromTagsList(Unwrap(message.tags))])
    ELSE None

\* and_then(|v| u32::from_str(v.as_str()).ok())
ParseOptU32(val_opt) ==
    IF IsSome(val_opt) /\ U32FromStr(Unwrap(val_opt)).ok
    THEN Some(U32FromStr(Unwrap(val_opt)).val)
    ELSE None

\* The loop over the tags of a tagged NOTICE.
RECURSIVE NoticeTagsLoop(_, _)
NoticeTagsLoop(tags, r) ==
    IF tags = <<>> THEN r
    ELSE LET key == Head(tags)[1]
             val == Head(tags)[2]
         IN  NoticeTagsLoop(Tail(tags),
               CASE key = "msg-id" -> [r EXCEPT !.msg_id = val]
                 [] key = "slow-duration" ->
                       [r EXCEPT !.slow_duration = ParseOptU32(val)]
                 [] key = "target-channel" ->
                       [r EXCEPT !.target_channel = val]
                 [] key = "number" -> [r EXCEPT !.number = ParseOptU32(val)]
                 [] key = "target-user" -> [r EXCEPT !.target_user = val]
                 [] key = "ban-duration" ->
                       [r EXCEPT !.ban_duration = ParseOptU32(val)]
                 [] key = "command" -> [r EXCEPT !.invalid_command = val]
                 [] OTHER -> r)

\* A NOTICE variant without payload.
Plain(kind) == Some([kind |-> kind])

\* A NOTICE variant whose payload is one companion tag.
WithTag(kind, field, opt) ==
    IF IsSome(opt) THEN Some([kind |-> kind, arg |-> Unwrap(opt)]) ELSE None

\* parse_message, Command::Raw("NOTICE", ..)
ParseRawNotice(message) ==
    IF IsSome(message.tags)
    THEN LET r == NoticeTagsLoop(Unwrap(message.tags),
                    [msg_id |-> None, slow_duration |-> None,
                     target_channel |-> None, number |-> None,
                     target_user |-> None, ban_duration |-> None,
                     invalid_command |-> None])
             id == Unwrap(r.msg_id)
         IN  IF IsSome(r.msg_id)
             THEN CASE id = <<"subs_on">> -> Plain("SubModeOn")
                    [] id = <<"already_subs_on">> -> Plain("SubModeAlreadyOn")
                    [] id = <<"subs_off">> -> Plain("SubModeOff")
                    [] id = <<"already_subs_off">> ->
                          Plain("SubModeAlreadyOff")
                    [] id = <<"slow_on">> ->
                          WithTag("SlowModeOn", "slow-duration",
                                  r.slow_duration)
                    [] id = <<"slow_off">> -> Plain("SlowModeOff")
                    [] id = <<"r9k_on">> -> Plain("R9kModeOn")
                    [] id = <<"already_r9k_on">> -> Plain("R9kModeAlreadyOn")
                    [] id = <<"r9k_off">> -> Plain("R9kModeOff")
                    [] id = <<"already_r9k_off">> ->
                          Plain("R9kModeAlreadyOff")
                    [] id = <<"host_on">> ->
                          WithTag("HostModeOn", "target-channel",
                                  r.target_channel)
                    [] id = <<"bad_host_hosting">> ->
                          WithTag("HostModeAlreadyOn", "target-channel",
                                  r.target_channel)
                    [] id = <<"host_off">> -> Plain("HostModeOff")
                    [] id = <<"hosts_remaining">> ->
                          WithTag("HostsRemaining", "number", r.number)
                    [] id = <<"emote_only_on">> -> Plain("EmoteModeOn")
                    [] id = <<"already_emote_only_on">> ->
                          Plain("EmoteModeAlreadyOn")
                    [] id = <<"emote_only_off">> -> Plain("EmoteModeOff")
                    [] id = <<"already_emote_only_off">> ->
                          Plain("EmoteModeAlreadyOff")
                    [] id = <<"msg_channel_suspended">> ->
                          Plain("ChannelSuspended")
                    [] id = <<"timeout_success">> ->
                          IF IsSome(r.target_user) /\ IsSome(r.ban_duration)
                          THEN Some([kind |-> "TimeoutConfirmed",
                                     arg |-> Unwrap(r.target_user),
                                     duration |-> Unwrap(r.ban_duration)])
                          ELSE None
                    [] id = <<"ban_success">> ->
                          WithTag("BanConfirmed", "target-user",
                                  r.target_user)
                    [] id = <<"unban_success">> ->
                          WithTag("UnbanConfirmed", "target-user",
                                  r.target_user)
                    [] id = <<"bad_unban_no_ban">> ->
                          WithTag("UnbanNoBan", "target-user", r.target_user)
                    [] id = <<"already_banned">> ->
                          WithTag("BanAlreadyBanned", "target-user",
                                  r.target_user)
                    [] id = <<"unrecognized_cmd">> ->
                          WithTag("UnrecognisedCommand", "command",
                                  r.invalid_command)
                    [] OTHER -> None
             ELSE None
    ELSE None

\* Chat::parse_message: Some(ChatMessage), or None when the raw message is
\* dropped.
ParseMessage(message) ==
    LET name == message.command.name IN
    CASE name = "PRIVMSG" -> ParsePrivmsg(message)
      [] name = "CAP" -> ParseCap(message)
      [] name = "MODE" -> ParseMode(message)
      [] name = "NOTICE" -> ParseNotice(message)
      [] name = "JOIN" -> ParseJoinPart(message, "Join")
      [] name = "PART" -> ParseJoinPart(message, "Leave")
      [] name = "Raw" ->
            (CASE message.command.cmdname = "CLEARCHAT" ->
                     ParseClearChat(message)
               [] message.command.cmdname = "ROOMSTATE" ->
                     ParseRoomState(message)
               [] message.command.cmdname = "NOTICE" ->
                     ParseRawNotice(message)
               [] OTHER -> None)
      [] OTHER -> None

---------------------------------------------------------------------------
(* The roster and the moderation engine.                                   *)

\* ChatUser::new
ChatUserNew(nickname) ==
    [nickname |-> nickname, display_name |-> nickname, is_mod |-> FALSE,
     is_paying |-> FALSE, auto_ban_date |-> None]

\* HashMap::insert: the entry under key is set, or replaced.
Insert(users, key, user) ==
    [n \in DOMAIN users \cup {key} |-> IF n = key THEN user ELSE users[n]]

\* user_ensure_exists, were it to insert a new entry whether or not the
\* nickname is in the roster.
UserEnsureExistsReinsert(users, nickname) ==
    [existed |-> nickname \in DOMAIN users,
     users |-> Insert(users, nickname, ChatUserNew(nickname))]

\* Chat::user_ensure_exists: the value returned and the roster left behind.
UserEnsureExists(users, nickname) ==
    IF nickname \in DOMAIN users
    THEN [existed |-> TRUE, users |-> users]
    ELSE [existed |-> FALSE,
          users |-> Insert(users, nickname, ChatUserNew(nickname))]

\* "Update user info", were it to assign is_paying from the tags of each
\* message.
UpdateUserInfoAssigned(user, tags) ==
    [user EXCEPT !.is_paying = (tags.is_turbo = Some(TRUE)
                                \/ tags.is_subscriber = Some(TRUE))]

\* "Update user info", were the mod tag of a message to make its sender a
\* moderator.
UpdateUserInfoWithMod(user, tags) ==
    [user EXCEPT !.is_paying = user.is_paying
                               \/ tags.is_turbo = Some(TRUE)
                               \/ tags.is_subscriber = Some(TRUE),
                 !.display_name = IF IsSome(tags.display_name)
                                  THEN Unwrap(tags.display_name)
                                  ELSE user.display_name,
                 !.is_mod = user.is_mod \/ tags.is_mod = Some(TRUE)]

\* process_message, "Update user info": the sender's entry after the tags of
\* the message are applied.
UpdateUserInfo(user, tags) ==
    LET named == IF IsSome(tags.display_name)
                 THEN [user EXCEPT !.display_name = Unwrap(tags.display_name)]
                 ELSE user
        turbo == IF IsSome(tags.is_turbo) /\ Unwrap(tags.is_turbo)
                 THEN [named EXCEPT !.is_paying = TRUE]
                 ELSE named
    IN  IF IsSome(tags.is_subscriber) /\ Unwrap(tags.is_subscriber)
        THEN [turbo EXCEPT !.is_paying = TRUE]
        ELSE turbo

\* user_is_mod, were the streamer a moderator whatever its roster entry says.
SenderIsModOrOwner(user) ==
    user.is_mod \/ user.nickname = ToLowercase(ConfChannel)

\* process_message: user_is_mod, read from the sender's entry.
SenderIsMod(user) == user.is_mod

\* user_is_protected, were it to leave out the paying users.
UserIsProtectedNoPaying(user_is_mod, user) ==
    user_is_mod \/ IsSome(user.auto_ban_date)

\* user_is_protected, were it to leave out the users banned before.
UserIsProtectedNoBanDate(user_is_mod, user) ==
    user_is_mod \/ user.is_paying

\* process_message: user_is_protected, computed on the updated entry.
UserIsProtected(user_is_mod, user) ==
    user_is_mod \/ user.is_paying \/ IsSome(user.auto_ban_date)

\* The ban condition, were the text checked without trim.
ShouldBanUntrimmed(user_is_protected, msg) ==
    ~user_is_protected /\ Check(msg)

\* process_message: the condition under which the sender is banned.
ShouldBan(user_is_protected, msg) ==
    ~user_is_protected /\ Check(Trim(msg))

\* ChatMessage::Message, were ":hammer on" taken from every sender.
ProcessChatTextOnByAnyone(users, ban_mode, nickname, msg, tags, now) ==
    LET ensured == UserEnsureExists(users, nickname).users
        user_is_mod == SenderIsMod(ensured[nickname])
        updated == [ensured EXCEPT
                       ![nickname] = UpdateUserInfo(ensured[nickname], tags)]
        user_is_protected == UserIsProtected(user_is_mod, updated[nickname])
    IN  IF msg = HAMMER_ON
        THEN IF TRUE
             THEN [all_users |-> updated, ban_mode_enabled |-> TRUE,
                   sent |-> <<ANNOUNCE_ON>>]
             ELSE [all_users |-> updated, ban_mode_enabled |-> ban_mode,
                   sent |-> <<>>]
        ELSE IF msg = HAMMER_OFF
        THEN IF user_is_mod
             THEN [all_users |-> updated, ban_mode_enabled |-> FALSE,
                   sent |-> <<ANNOUNCE_OFF>>]
             ELSE [all_users |-> updated, ban_mode_enabled |-> ban_mode,
                   sent |-> <<>>]
        ELSE IF ban_mode /\ ShouldBan(user_is_protected, msg)
        THEN [all_users |->
                  [updated EXCEPT ![nickname].auto_ban_date = Some(now)],
              ban_mode_enabled |-> ban_mode,
              sent |-> <<BanCommand(nickname)>>]
        ELSE [all_users |-> updated, ban_mode_enabled |-> ban_mode,
              sent |-> <<>>]

\* process_message, ChatMessage::Message from a sender other than the bot.
\* The result is the roster, the ban mode and the texts handed to send.
ProcessChatText(users, ban_mode, nickname, msg, tags, now) ==
    LET ensured == UserEnsureExists(users, nickname).users
        user_is_mod == SenderIsMod(ensured[nickname])
        updated == [ensured EXCEPT
                       ![nickname] = UpdateUserInfo(ensured[nickname], tags)]
        user_is_protected == UserIsProtected(user_is_mod, updated[nickname])
    IN  IF msg = HAMMER_ON
        THEN IF user_is_mod
             THEN [all_users |-> updated, ban_mode_enabled |-> TRUE,
                   sent |-> <<ANNOUNCE_ON>>]
             ELSE [all_users |-> updated, ban_mode_enabled |-> ban_mode,
                   sent |-> <<>>]
        ELSE IF msg = HAMMER_OFF
        THEN IF user_is_mod
             THEN [all_users |-> updated, ban_mode_enabled |-> FALSE,
                   sent |-> <<ANNOUNCE_OFF>>]
             ELSE [all_users |-> updated, ban_mode_enabled |-> ban_mode,
                   sent |-> <<>>]
        ELSE IF ban_mode /\ ShouldBan(user_is_protected, msg)
        THEN [all_users |->
                  [updated EXCEPT ![nickname].auto_ban_date = Some(now)],
              ban_mode_enabled |-> ban_mode,
              sent |-> <<BanCommand(nickname)>>]
        ELSE [all_users |-> updated, ban_mode_enabled |-> ban_mode,
              sent |-> <<>>]

\* ChatMessage::Message, were the messages of the bot itself not ignored.
ProcessMessageEventOfAnyone(users, ban_mode, my_nickname, m, now) ==
    ProcessChatText(users, ban_mode, m.nickname, m.msg, m.tags, now)

\* ChatMessage::Message, were the nickname compared with the bot's own
\* without regard to case.
ProcessMessageEventIgnoreCase(users, ban_mode, my_nickname, m, now) ==
    IF ToLowercase(m.nickname) # ToLowercase(my_nickname)
    THEN ProcessChatText(users, ban_mode, m.nickname, m.msg, m.tags, now)
    ELSE [all_users |-> users, ban_mode_enabled |-> ban_mode, sent |-> <<>>]

\* process_message, ChatMessage::Message.
ProcessMessageEvent(users, ban_mode, my_nickname, m, now) ==
    IF m.nickname # my_nickname
    THEN ProcessChatText(users, ban_mode, m.nickname, m.msg, m.tags, now)
    ELSE [all_users |-> users, ban_mode_enabled |-> ban_mode, sent |-> <<>>]

\* ChatMessage::Operator, were it to store a new entry for the nickname.
ProcessOperatorFresh(users, nickname, is_op) ==
    Insert(users, nickname, [ChatUserNew(nickname) EXCEPT !.is_mod = is_op])

\* process_message, ChatMessage::Operator: the roster left behind.
ProcessOperator(users, nickname, is_op) ==
    LET ensured == UserEnsureExists(users, nickname).users IN
    [ensured EXCEPT ![nickname].is_mod = is_op]

\* The flag of a capability, were each Capability message to assign it:
\* true when the name is in the list, false when it is not.
CapAssigned(enabled, cap, caps) == \E i \in 1..Len(caps) : caps[i] = cap

\* process_message, ChatMessage::Capability: whether the loop over the names
\* leaves a flag set.
CapAcknowledged(enabled, cap, caps) ==
    enabled \/ \E i \in 1..Len(caps) : caps[i] = cap

\* The other messages, were a Leave to remove the user from the roster.
ProcessOtherRemovesLeaver(users, m) ==
    IF m.kind = "Leave"
    THEN [n \in DOMAIN users \ {m.nickname} |-> users[n]]
    ELSE users

\* The other messages, were a Join to make a roster entry for the user.
ProcessOtherAddsJoiner(users, m) ==
    IF m.kind = "Join"
    THEN UserEnsureExists(users, m.nickname).users
    ELSE users

\* process_message, ChatMessage::InvalidAuthToken and the "_ => {}" arm of
\* every other message: the roster left behind.
ProcessOther(users, m) == users

\* What process_message returns, were InvalidAuthToken to end the loop ("We
\* could exit here").
ProcessMessageResultAuthFatal(m) == m.kind # "InvalidAuthToken"

\* process_message returns true for every message.
ProcessMessageResult(m) == TRUE

---------------------------------------------------------------------------
(* The messages the message source delivers in the model.                  *)

Chan == ToLowercase(ConfChannel)
Bot == ConfUsername
User == <<"u","s","e","r">>

Nicknames == {Chan, Bot, User}

\* The prefix the server puts before a message of nickname.
PrefixOf(nickname) == nickname \o <<"!", "tmi.twitch.tv">>

BadPrefix == <<"u"," ","w","o","t","?">>

BanMe == <<"b","a","n"," ","m","e","!">>

Texts ==
    { BanMe,
      BanMe \o <<" ">>,
      <<"B","a","n"," ","m","e","!">>,
      <<"p","l","e","a","s","e"," ">> \o BanMe,
      <<"h","e","l","l","o">>,
      HAMMER_ON,
      HAMMER_ON \o <<" ">>,
      HAMMER_OFF }

Tg(key, val) == <<key, Some(val)>>

\* The tag lists of the chat texts that carry tags.
TagLists ==
    { <<Tg("subscriber", <<"1">>)>>,
      <<Tg("subscriber", <<"0">>)>>,
      <<Tg("turbo", <<"1">>)>>,
      <<Tg("subscriber", <<"1">>), Tg("subscriber", <<"0">>)>>,
      << <<"subscriber", None>> >>,
      <<Tg("mod", <<"1">>), Tg("user-type", <<"mod">>)>>,
      <<Tg("display-name", <<"U","s","e","r">>)>>,
      <<Tg("room-id", <<"1","2">>), Tg("user-id", <<"7">>)>>,
      <<Tg("subscriber", <<"1">>), Tg("room-id", <<"x">>)>>,
      <<Tg("user-id", <<"-","1">>), Tg("turbo", <<"1">>)>> }

Privmsg(tags, prefix, msg) ==
    [tags |-> tags, prefix |-> prefix,
     command |-> [name |-> "PRIVMSG", target |-> <<"#">> \o Chan,
                  msg |-> msg]]

PrivmsgMessages ==
    { Privmsg(Some(<<>>), Some(PrefixOf(n)), t) : n \in Nicknames, t \in Texts }
    \cup
    { Privmsg(Some(tl), Some(PrefixOf(n)), t) :
        tl \in TagLists, n \in {User, Bot}, t \in {BanMe, HAMMER_ON} }
    \cup
    { Privmsg(None, Some(PrefixOf(User)), BanMe),
      Privmsg(Some(<<>>), None, BanMe),
      Privmsg(Some(<<>>), Some(BadPrefix), BanMe) }

ModeMessages ==
    { [tags |-> None, prefix |-> Some(<<"jtv">>),
       command |-> [name |-> "MODE", mode |-> mode, nickname |-> n]] :
        mode \in {"+o", "-o", "+v"},
        n \in {None} \cup {Some(x) : x \in Nicknames} }

CapMessages ==
    { [tags |-> None, prefix |-> Some(<<"tmi.twitch.tv">>),
       command |-> [name |-> "CAP", sub |-> sub, param |-> param]] :
        sub \in {"ACK", "NAK"},
        param \in {None,
                   Some(CAP_MEMBERSHIP \o <<" ">> \o CAP_COMMANDS),
                   Some(CAP_TAGS),
                   Some(<<"twitch.tv/other">>)} }

OtherMessages ==
    { [tags |-> None, prefix |-> Some(<<"tmi.twitch.tv">>),
       command |-> [name |-> "NOTICE", content |-> c]] :
        c \in {LOGIN_FAILED, "Error logging in"} }
    \cup
    { [tags |-> None, prefix |-> p, command |-> [name |-> name]] :
        name \in {"JOIN", "PART"}, p \in {None, Some(PrefixOf(User))} }
    \cup
    { [tags |-> tags, prefix |-> Some(<<"tmi.twitch.tv">>),
       command |-> [name |-> "Raw", cmdname |-> "CLEARCHAT",
                    args |-> << <<"#">> \o Chan >>, suffix |-> suffix]] :
        tags \in {None, Some(<<>>),
                  Some(<<Tg("ban-duration", <<"6","0","0">>)>>)},
        suffix \in {None, Some(User)} }
    \cup
    { [tags |-> tags, prefix |-> Some(<<"tmi.twitch.tv">>),
       command |-> [name |-> "Raw", cmdname |-> cmdname,
                    args |-> << <<"#">> \o Chan >>, suffix |-> None]] :
        tags \in {None, Some(<<Tg("r9k", <<"1">>)>>),
                  Some(<<Tg("msg-id", <<"subs_on">>)>>),
                  Some(<<Tg("msg-id", <<"ban_success">>),
                         Tg("target-user", User)>>)},
        cmdname \in {"ROOMSTATE", "NOTICE", "USERSTATE"} }
    \cup
    { [tags |-> None, prefix |-> None, command |-> [name |-> "PING"]] }

RawMessages ==
    PrivmsgMessages \cup ModeMessages \cup CapMessages \cup OtherMessages

---------------------------------------------------------------------------
(* The state machine: Chat::new, then the loop of Chat::run.               *)

VARIABLES
    all_users,                \* Chat.all_users: nickname -> ChatUser
    ban_mode_enabled,         \* Chat.ban_mode_enabled
    cap_membership_enabled,   \* Chat.cap_membership_enabled
    cap_commands_enabled,     \* Chat.cap_commands_enabled
    cap_tags_enabled,         \* Chat.cap_tags_enabled
    pc,                       \* where Chat::run is: "start", "read", "skip",
                              \* "process", "loop", "done" or "panicked"
    source,                   \* the items server.iter() has yet to yield: None
                              \* for a connection that stays open, Some(k) for
                              \* a source that ends after k more items
    item,                     \* the last item server.iter() yielded
    message,                  \* what parse_message made of it (an Option)
    outbox,                   \* what send was called with for that message
    prev,                     \* the fields of Chat when the item was read
    ensured,                  \* the call of user_ensure_exists made for that
                              \* message (an Option)
    ban_count,                \* nickname -> the "/ban" lines sent for it so far
    armed                     \* whether a moderator's ":hammer on" has been
                              \* processed with no ":hammer off" since:
                              \* any_off counts the ":hammer off" of every
                              \* moderator, others_off that of the
                              \* moderators other than the bot

chat == <<all_users, ban_mode_enabled, cap_membership_enabled,
          cap_commands_enabled, cap_tags_enabled>>

vars == <<all_users, ban_mode_enabled, cap_membership_enabled,
          cap_commands_enabled, cap_tags_enabled, pc, source, item, message,
          outbox, prev, ensured, ban_count, armed>>

\* Chat.my_nickname and Chat.channel, set by Chat::new and never assigned.
my_nickname == ConfUsername
channel == <<"#">> \o ToLowercase(ConfChannel)

\* The fields of Chat as one record.
ChatFields ==
    [all_users |-> all_users, ban_mode_enabled |-> ban_mode_enabled,
     cap_membership_enabled |-> cap_membership_enabled,
     cap_commands_enabled |-> cap_commands_enabled,
     cap_tags_enabled |-> cap_tags_enabled]

\* Chat::new: the roster holds the streamer, a moderator; run has not been
\* called yet.
ChatNew ==
    LET streamer_name == ToLowercase(ConfChannel) IN
    /\ all_users = Insert(<<>>, streamer_name,
                     [ChatUserNew(streamer_name) EXCEPT !.is_mod = TRUE])
    /\ ban_mode_enabled = FALSE
    /\ cap_membership_enabled = FALSE
    /\ cap_commands_enabled = FALSE
    /\ cap_tags_enabled = FALSE
    /\ pc = "start"
    /\ item = [kind |-> "None"]
    /\ message = None
    /\ outbox = <<>>
    /\ prev = ChatFields
    /\ ensured = None
    /\ ban_count = <<>>
    /\ armed = [any_off |-> FALSE, others_off |-> FALSE]

\* The program on a connection that stays open: the source may yield another
\* item, or end, whenever it is asked.
Init == ChatNew /\ source = None

\* The source has another item to yield / has reached its end.
HasNext == IF source = None THEN TRUE ELSE Unwrap(source) > 0
AtEnd == IF source = None THEN TRUE ELSE Unwrap(source) = 0

\* The source after it has yielded an item.
Yielded == IF source = None THEN None ELSE Some(Unwrap(source) - 1)

\* Chat::run before its loop: identify and send_cap_req succeed.
Connect ==
    /\ pc = "start"
    /\ pc' = "read"
    /\ UNCHANGED <<chat, source, item, message, outbox, prev, ensured,
                   ban_count, armed>>

\* Chat::run before its loop: identify or send_cap_req returns an error, and
\* unwrap / expect panics.
ConnectFailed ==
    /\ pc = "start"
    /\ pc' = "panicked"
    /\ UNCHANGED <<chat, source, item, message, outbox, prev, ensured,
                   ban_count, armed>>

\* What the variables about the item at hand hold while no item is at hand.
NoItem ==
    /\ item' = [kind |-> "None"]
    /\ message' = None
    /\ outbox' = <<>>
    /\ prev' = ChatFields
    /\ ensured' = None

\* read_next_message, were it to take the next item of the source while the
\* message made of the last one is still to be processed.
ReadFromEarly(raws) ==
    /\ pc \in {"read", "process"}
    /\ HasNext
    /\ \E raw \in raws :
          /\ IsSome(ParseMessage(raw))
          /\ item' = [kind |-> "Ok", raw |-> raw]
          /\ message' = ParseMessage(raw)
    /\ pc' = "process"
    /\ source' = Yielded
    /\ UNCHANGED <<chat, outbox, prev, ensured, ban_count, armed>>

\* read_next_message: the source yields Ok(raw), one of raws, and
\* parse_message makes a ChatMessage of it, which read_next_message returns to
\* run.
ReadFrom(raws) ==
    /\ pc = "read"
    /\ HasNext
    /\ \E raw \in raws :
          /\ IsSome(ParseMessage(raw))
          /\ item' = [kind |-> "Ok", raw |-> raw]
          /\ message' = ParseMessage(raw)
    /\ pc' = "process"
    /\ source' = Yielded
    /\ UNCHANGED <<chat, outbox, prev, ensured, ban_count, armed>>

\* read_next_message: the source yields Ok(raw), one of raws, and
\* parse_message returns None: the message is skipped.
SkipFrom(raws) ==
    /\ pc = "read"
    /\ HasNext
    /\ \E raw \in raws :
          /\ ~IsSome(ParseMessage(raw))
          /\ item' = [kind |-> "Ok", raw |-> raw]
    /\ pc' = "skip"
    /\ source' = Yielded
    /\ UNCHANGED <<chat, message, outbox, prev, ensured, ban_count, armed>>

ReadMessage == ReadFrom(RawMessages)

SkipMessage == SkipFrom(RawMessages)

\* read_next_message, were an Err of the source to end the loop of run.
ReadErrorEndsLoop ==
    /\ pc = "read"
    /\ HasNext
    /\ item' = [kind |-> "Err"]
    /\ pc' = "done"
    /\ source' = Yielded
    /\ UNCHANGED <<chat, message, outbox, prev, ensured, ban_count, armed>>

\* read_next_message: the source yields Err, which is logged.
ReadError ==
    /\ pc = "read"
    /\ HasNext
    /\ item' = [kind |-> "Err"]
    /\ pc' = "skip"
    /\ source' = Yielded
    /\ UNCHANGED <<chat, message, outbox, prev, ensured, ban_count, armed>>

\* read_next_message: after a skipped message or an error, the for loop over
\* server.iter() asks the source for its next item.
NextItem ==
    /\ pc = "skip"
    /\ pc' = "read"
    /\ NoItem
    /\ UNCHANGED <<chat, source, ban_count, armed>>

\* read_next_message: the source is exhausted; it returns None and run
\* leaves its loop.
EndOfStream ==
    /\ pc = "read"
    /\ AtEnd
    /\ item' = [kind |-> "End"]
    /\ pc' = "done"
    /\ UNCHANGED <<chat, source, message, outbox, prev, ensured, ban_count,
                   armed>>

\* Chat::send, were a text whose send_privmsg fails sent a second time.
SendRetried(texts, ok) ==
    LET first == [i \in 1..Len(texts) |->
                     [target |-> channel, text |-> texts[i], ok |-> ok[i]]]
    IN  IF \E i \in 1..Len(texts) : ~ok[i]
        THEN first \o [i \in 1..Len(texts) |->
                          [target |-> channel, text |-> texts[i], ok |-> TRUE]]
        ELSE first

\* Chat::send: send_privmsg to the channel succeeds or fails; a failure is
\* logged and nothing else.
Send(texts, ok) ==
    [i \in 1..Len(texts) |->
        [target |-> channel, text |-> texts[i], ok |-> ok[i]]]

\* The "/ban" lines among the texts sent, added to the count of each nickname.
IsBanLine(text) ==
    Len(text) >= 5 /\ SubSeq(text, 1, 5) = <<"/","b","a","n"," ">>

BanTarget(text) == SubSeq(text, 6, Len(text))

Counted(count, texts) ==
    IF texts # <<>> /\ IsBanLine(texts[1])
    THEN LET n == BanTarget(texts[1]) IN
         Insert(count, n, IF n \in DOMAIN count THEN count[n] + 1 ELSE 1)
    ELSE count

\* The control phrases a moderator has sent so far: a Message with
\* ":hammer on" from a sender whose roster entry has is_mod sets both flags,
\* one with ":hammer off" from such a sender clears any_off, and others_off
\* too unless the sender is the bot.
Armed(flags, users, m) ==
    IF m.nickname \in DOMAIN users /\ users[m.nickname].is_mod
    THEN IF m.msg = HAMMER_ON
         THEN [any_off |-> TRUE, others_off |-> TRUE]
         ELSE IF m.msg = HAMMER_OFF
         THEN [any_off |-> FALSE,
               others_off |-> flags.others_off /\ m.nickname = my_nickname]
         ELSE flags
    ELSE flags

\* The record of a call of user_ensure_exists.
EnsureCall(users, nickname) ==
    Some([nickname |-> nickname, before |-> users,
          existed |-> UserEnsureExists(users, nickname).existed,
          after |-> UserEnsureExists(users, nickname).users])

\* Chat::process_message on the message read, then back to the top of the
\* loop of run.
ProcessMessage ==
    /\ pc = "process"
    /\ LET m == Unwrap(message) IN
       /\ CASE m.kind = "Message" ->
                 \E now \in Times :
                    LET r == ProcessMessageEvent(all_users, ban_mode_enabled,
                                                 my_nickname, m, now)
                    IN  /\ all_users' = r.all_users
                        /\ ban_mode_enabled' = r.ban_mode_enabled
                        /\ \E ok \in [1..Len(r.sent) -> BOOLEAN] :
                              outbox' = Send(r.sent, ok)
                        /\ ban_count' = Counted(ban_count, r.sent)
                        /\ armed' = Armed(armed, all_users, m)
                        /\ ensured' = IF m.nickname # my_nickname
                                      THEN EnsureCall(all_users, m.nickname)
                                      ELSE None
                        /\ UNCHANGED <<cap_membership_enabled,
                                       cap_commands_enabled, cap_tags_enabled>>
            [] m.kind = "Capability" ->
                 /\ cap_commands_enabled' =
                       CapAcknowledged(cap_commands_enabled, CAP_COMMANDS,
                                       m.caps)
                 /\ cap_membership_enabled' =
                       CapAcknowledged(cap_membership_enabled, CAP_MEMBERSHIP,
                                       m.caps)
                 /\ cap_tags_enabled' =
                       CapAcknowledged(cap_tags_enabled, CAP_TAGS, m.caps)
                 /\ UNCHANGED <<all_users, ban_mode_enabled, outbox, ensured,
                                ban_count, armed>>
            [] m.kind = "Operator" ->
                 /\ all_users' = ProcessOperator(all_users, m.nickname, m.is_op)
                 /\ ensured' = EnsureCall(all_users, m.nickname)
                 /\ UNCHANGED <<ban_mode_enabled, cap_membership_enabled,
                                cap_commands_enabled, cap_tags_enabled, outbox,
                                ban_count, armed>>
            [] OTHER ->
                 /\ all_users' = ProcessOther(all_users, m)
                 /\ UNCHANGED <<ban_mode_enabled, cap_membership_enabled,
                                cap_commands_enabled, cap_tags_enabled, outbox,
                                ensured, ban_count, armed>>
       /\ pc' = IF ProcessMessageResult(m) THEN "loop" ELSE "done"
    /\ UNCHANGED <<source, item, message, prev>>

\* Chat::run: process_message returned true, the loop goes round and calls
\* read_next_message again.
NextIteration ==
    /\ pc = "loop"
    /\ pc' = "read"
    /\ NoItem
    /\ UNCHANGED <<chat, source, ban_count, armed>>

Next ==
    \/ Connect
    \/ ConnectFailed
    \/ ReadMessage
    \/ SkipMessage
    \/ ReadError
    \/ NextItem
    \/ EndOfStream
    \/ ProcessMessage
    \/ NextIteration

Spec == Init /\ [][Next]_vars

---------------------------------------------------------------------------
(* The same program on a wider set of raw messages: every short prefix,    *)
(* capability list and CLEARCHAT tag list, and few chat texts.             *)

\* The sequences over alphabet of length 0..n.
StringsUpTo(alphabet, n) == UNION {[1..k -> alphabet] : k \in 0..n}

\* The prefix of the test parse_user_name_from_prefix_correct.
MyUserPrefix == <<"M","y","U","s","e","r","!","myuser@tmi.twitch.tv">>

Prefixes ==
    StringsUpTo({"U", "s", "!"}, MaxPrefixLen) \cup {MyUserPrefix, BadPrefix}

\* The prefixes of the chat texts: fewer, as each sender gets a roster entry.
ChatPrefixes ==
    StringsUpTo({"U", "s", "!"}, 2) \cup {MyUserPrefix, BadPrefix, PrefixOf(Chan)}

Hi == <<"h","i">>

ChatTextMessages ==
    { Privmsg(tags, prefix, text) :
        tags \in {None, Some(<<>>)},
        prefix \in {None} \cup {Some(p) : p \in ChatPrefixes},
        text \in {Hi, HAMMER_ON} }

JoinPartMessages ==
    { [tags |-> None, prefix |-> prefix, command |-> [name |-> name]] :
        name \in {"JOIN", "PART"},
        prefix \in {None} \cup {Some(p) : p \in Prefixes} }

\* The names of a capability list, separated by single spaces.
RECURSIVE JoinNames(_)
JoinNames(names) ==
    IF names = <<>> THEN <<>>
    ELSE IF Len(names) = 1 THEN <<names[1]>>
    ELSE <<names[1], " ">> \o JoinNames(Tail(names))

CapNames ==
    {CAP_MEMBERSHIP[1], CAP_COMMANDS[1], CAP_TAGS[1], "twitch.tv/other"}

CapLists ==
    { JoinNames(names) : names \in StringsUpTo(CapNames, MaxCapNames) }
    \cup { <<" ">> \o CAP_TAGS \o <<" ", "\t">> \o CAP_COMMANDS \o <<" ">> }

CapListMessages ==
    { [tags |-> None, prefix |-> Some(<<"tmi.twitch.tv">>),
       command |-> [name |-> "CAP", sub |-> sub, param |-> param]] :
        sub \in {"ACK", "NAK", "LS"},
        param \in {None} \cup {Some(l) : l \in CapLists} }

SixHundred == <<"6","0","0">>
Spam == <<"spam">>

ClearChatTags ==
    { Tg("ban-duration", SixHundred),
      Tg("ban-duration", <<"s","o","o","n">>),
      <<"ban-duration", None>>,
      Tg("ban-reason", Spam),
      <<"ban-reason", None>>,
      Tg("room-id", <<"1","2">>) }

ClearChatMessages ==
    { [tags |-> tags, prefix |-> Some(<<"tmi.twitch.tv">>),
       command |-> [name |-> "Raw", cmdname |-> "CLEARCHAT",
                    args |-> << <<"#">> \o Chan >>, suffix |-> suffix]] :
        tags \in {None}
                 \cup {Some(l) : l \in StringsUpTo(ClearChatTags, MaxClearTags)},
        suffix \in {None, Some(User)} }

\* The msg-id values the NOTICE arm of parse_message knows, and one it does
\* not.
NoticeIds ==
    { <<"subs_on">>, <<"already_subs_on">>, <<"subs_off">>,
      <<"already_subs_off">>, <<"slow_on">>, <<"slow_off">>, <<"r9k_on">>,
      <<"already_r9k_on">>, <<"r9k_off">>, <<"already_r9k_off">>,
      <<"host_on">>, <<"bad_host_hosting">>, <<"host_off">>,
      <<"hosts_remaining">>, <<"emote_only_on">>, <<"already_emote_only_on">>,
      <<"emote_only_off">>, <<"already_emote_only_off">>,
      <<"msg_channel_suspended">>, <<"timeout_success">>, <<"ban_success">>,
      <<"unban_success">>, <<"bad_unban_no_ban">>, <<"already_banned">>,
      <<"unrecognized_cmd">>, <<"color_changed">> }

\* The tags that come with a msg-id.
NoticeCompanions ==
    << Tg("slow-duration", <<"3","0">>), Tg("target-channel", <<"other">>),
       Tg("number", <<"5">>), Tg("target-user", User),
       Tg("ban-duration", SixHundred), Tg("command", <<"/","x">>) >>

\* The messages process_message has no arm of its own for, besides the JOIN,
\* PART and CLEARCHAT above: tagged notices, ROOMSTATE and the NOTICE of a
\* failed login.
InformationalMessages ==
    { [tags |-> Some(<<Tg("msg-id", id)>> \o companions),
       prefix |-> Some(<<"tmi.twitch.tv">>),
       command |-> [name |-> "Raw", cmdname |-> "NOTICE",
                    args |-> << <<"#">> \o Chan >>, suffix |-> None]] :
        id \in NoticeIds, companions \in {<<>>, NoticeCompanions} }
    \cup
    { [tags |-> tags, prefix |-> Some(<<"tmi.twitch.tv">>),
       command |-> [name |-> "Raw", cmdname |-> "ROOMSTATE",
                    args |-> << <<"#">> \o Chan >>, suffix |-> None]] :
        tags \in {None, Some(<<Tg("r9k", <<"1">>), Tg("slow", <<"0">>)>>)} }
    \cup
    { [tags |-> None, prefix |-> Some(<<"tmi.twitch.tv">>),
       command |-> [name |-> "NOTICE", content |-> LOGIN_FAILED]] }

ClassifierMessages ==
    ChatTextMessages \cup JoinPartMessages \cup CapListMessages
    \cup ClearChatMessages \cup InformationalMessages

ReadClassified == ReadFrom(ClassifierMessages)

SkipClassified == SkipFrom(ClassifierMessages)

NextClassifier ==
    \/ Connect
    \/ ConnectFailed
    \/ ReadClassified
    \/ SkipClassified
    \/ ReadError
    \/ NextItem
    \/ EndOfStream
    \/ ProcessMessage
    \/ NextIteration

SpecClassifier == Init /\ [][NextClassifier]_vars

---------------------------------------------------------------------------
(* The same program on a source that ends: it yields at most MaxItems      *)
(* items.  run is sequential code that keeps running while it can take a   *)
(* step, and a source that ends answers every request, hence the weak      *)
(* fairness of Next.                                                       *)

InitFinite == ChatNew /\ source \in {Some(k) : k \in 0..MaxItems}

SpecFinite == InitFinite /\ [][Next]_vars /\ WF_vars(Next)

---------------------------------------------------------------------------
(* The same program on a source that delivers the chat texts of the bot    *)
(* itself, of a user whose nickname differs from the bot's by case only    *)
(* and of the streamer, and the MODE messages that make the bot a          *)
(* moderator or take that from it.                                         *)

\* A nickname that is the bot's but for the case of its first letter.
BotCased == <<"B">> \o Tail(Bot)

SelfTexts == {BanMe, HAMMER_ON, HAMMER_OFF, Hi}

SelfMessages ==
    { Privmsg(tags, Some(PrefixOf(n)), t) :
        tags \in {Some(<<>>), Some(<<Tg("subscriber", <<"1">>)>>)},
        n \in {Bot, BotCased, Chan}, t \in SelfTexts }
    \cup
    { [tags |-> None, prefix |-> Some(<<"jtv">>),
       command |-> [name |-> "MODE", mode |-> mode, nickname |-> Some(Bot)]] :
        mode \in {"+o", "-o"} }
    \cup
    { Privmsg(None, Some(PrefixOf(Bot)), BanMe) }

ReadSelf == ReadFrom(SelfMessages)

SkipSelf == SkipFrom(SelfMessages)

NextSelf ==
    \/ Connect
    \/ ConnectFailed
    \/ ReadSelf
    \/ SkipSelf
    \/ ReadError
    \/ NextItem
    \/ EndOfStream
    \/ ProcessMessage
    \/ NextIteration

SpecSelf == Init /\ [][NextSelf]_vars

---------------------------------------------------------------------------
(* The loop of main (src/src/main.rs).  main makes no Chat: the fields of  *)
(* Chat keep the values of Init, and of the variables main's loop has the  *)
(* position pc, the source, the item read and the line sent for it.        *)

\* The lines main answers with.
GREETING == <<"hi">>
DANSGAME == <<"DansGame">>
FRANKERZ == <<"FrankerZ">>

\* The messages the source delivers to main: chat texts, JOINs with their
\* channel, and messages of the commands main has no arm for.
MainMessages ==
    PrivmsgMessages
    \cup
    { [tags |-> None, prefix |-> Some(PrefixOf(n)),
       command |-> [name |-> "JOIN", chanlist |-> <<"#">> \o Chan]] :
        n \in Nicknames }
    \cup ModeMessages \cup CapMessages

\* main before its loop: from_config and identify succeed.
MainConnect ==
    /\ pc = "start"
    /\ pc' = "read"
    /\ UNCHANGED <<chat, source, item, message, outbox, prev, ensured,
                   ban_count, armed>>

\* main before its loop: from_config or identify returns an error and unwrap
\* panics.
MainConnectFailed ==
    /\ pc = "start"
    /\ pc' = "panicked"
    /\ UNCHANGED <<chat, source, item, message, outbox, prev, ensured,
                   ban_count, armed>>

\* for message in server.iter(): the source yields Ok(message).
MainRead ==
    /\ pc = "read"
    /\ HasNext
    /\ \E raw \in MainMessages : item' = [kind |-> "Ok", raw |-> raw]
    /\ pc' = "process"
    /\ source' = Yielded
    /\ UNCHANGED <<chat, message, outbox, prev, ensured, ban_count, armed>>

\* for message in server.iter(): the source yields Err, and message.unwrap()
\* panics.
MainReadError ==
    /\ pc = "read"
    /\ HasNext
    /\ item' = [kind |-> "Err"]
    /\ pc' = "panicked"
    /\ source' = Yielded
    /\ UNCHANGED <<chat, message, outbox, prev, ensured, ban_count, armed>>

\* for message in server.iter(): the source is exhausted, and main returns.
MainEnd ==
    /\ pc = "read"
    /\ AtEnd
    /\ item' = [kind |-> "End"]
    /\ pc' = "done"
    /\ UNCHANGED <<chat, source, message, outbox, prev, ensured, ban_count,
                   armed>>

\* The line main sends for a message: its target and text, None for the
\* commands of the "_ => ()" arm.
MainAnswer(raw) ==
    CASE raw.command.name = "JOIN" ->
            Some([target |-> raw.command.chanlist, text |-> GREETING])
      [] raw.command.name = "PRIVMSG" ->
            Some([target |-> raw.command.target,
                  text |-> IF Check(Trim(raw.command.msg))
                           THEN DANSGAME ELSE FRANKERZ])
      [] OTHER -> None

\* The body of main's loop: match message.command, with
\* send_privmsg(..).unwrap() in the JOIN and PRIVMSG arms, which panics when
\* the send fails.
MainHandle ==
    /\ pc = "process"
    /\ LET answer == MainAnswer(item.raw) IN
       IF IsSome(answer)
       THEN \E ok \in BOOLEAN :
               /\ outbox' = <<[target |-> Unwrap(answer).target,
                               text |-> Unwrap(answer).text, ok |-> ok]>>
               /\ pc' = IF ok THEN "loop" ELSE "panicked"
       ELSE /\ outbox' = <<>>
            /\ pc' = "loop"
    /\ UNCHANGED <<chat, source, item, message, prev, ensured, ban_count,
                   armed>>

\* The for loop of main goes round.
MainNextIteration ==
    /\ pc = "loop"
    /\ pc' = "read"
    /\ NoItem
    /\ UNCHANGED <<chat, source, ban_count, armed>>

NextMain ==
    \/ MainConnect
    \/ MainConnectFailed
    \/ MainRead
    \/ MainReadError
    \/ MainEnd
    \/ MainHandle
    \/ MainNextIteration

SpecMain == Init /\ [][NextMain]_vars

---------------------------------------------------------------------------
(* Properties.  In a state with pc = "loop", process_message has just run  *)
(* on Msg, prev holds the fields of Chat from before it and outbox what it *)
(* handed to send.                                                         *)

Msg == Unwrap(message)

\* process_message has just run on a chat text.
ChatProcessed == pc = "loop" /\ Msg.kind = "Message"

\* The roster entry of nickname n before the message was processed.
WasKnown(n) == n \in DOMAIN prev.all_users
WasMod(n) == WasKnown(n) /\ prev.all_users[n].is_mod
WasPaying(n) == WasKnown(n) /\ prev.all_users[n].is_paying
HadBanDate(n) == WasKnown(n) /\ IsSome(prev.all_users[n].auto_ban_date)

\* The sender is paying once the tags of the message are applied.
PayingWith(m) ==
    \/ WasPaying(m.nickname)
    \/ m.tags.is_subscriber = Some(TRUE)
    \/ m.tags.is_turbo = Some(TRUE)

ProtectedWith(m) ==
    WasMod(m.nickname) \/ PayingWith(m) \/ HadBanDate(m.nickname)

BannedPhrases == {ban_list[i] : i \in 1..Len(ban_list)}
ControlPhrases == {HAMMER_ON, HAMMER_OFF}

\* The texts handed to send for the message, in order, and the "/ban" lines
\* among them.
SentTexts == [i \in 1..Len(outbox) |-> outbox[i].text]
SentBans == {i \in 1..Len(outbox) : IsBanLine(outbox[i].text)}

\* C1: a chat text that is not from the bot, is no control phrase, comes
\* while the ban mode is on from a sender who is not protected once its tags
\* are applied, and whose trimmed text is a banned phrase, makes
\* process_message send exactly one line, "/ban <sender>", and leaves the
\* sender's auto_ban_date set.
C1_SanctionEmitted ==
    (/\ ChatProcessed
     /\ Msg.nickname # my_nickname
     /\ prev.ban_mode_enabled
     /\ Msg.msg \notin ControlPhrases
     /\ ~ProtectedWith(Msg)
     /\ Trim(Msg.msg) \in BannedPhrases)
    => /\ SentTexts = <<BanCommand(Msg.nickname)>>
       /\ Msg.nickname \in DOMAIN all_users
       /\ IsSome(all_users[Msg.nickname].auto_ban_date)

C1_Witness ==
    /\ ChatProcessed
    /\ Msg.nickname = User
    /\ Msg.msg = BanMe \o <<" ">>
    /\ prev.ban_mode_enabled
    /\ ~ProtectedWith(Msg)
    /\ SentTexts = <<BanCommand(User)>>
    /\ IsSome(all_users[User].auto_ban_date)

\* C2: a chat text carrying a banned phrase from a sender whose entry is a
\* moderator, is paying (also by the subscriber or turbo tag of this very
\* message) or has an auto_ban_date makes process_message send no "/ban"
\* line.
C2_ProtectedNeverSanctioned ==
    (/\ ChatProcessed
     /\ Trim(Msg.msg) \in BannedPhrases
     /\ ProtectedWith(Msg))
    => SentBans = {}

C2_Witness ==
    /\ ChatProcessed
    /\ Msg.nickname = User
    /\ Msg.msg = BanMe
    /\ prev.ban_mode_enabled
    /\ ~WasMod(User) /\ ~WasPaying(User) /\ ~HadBanDate(User)
    /\ Msg.tags.is_subscriber = Some(TRUE)
    /\ outbox = <<>>
    /\ all_users[User].auto_ban_date = None

\* The ban mode changes only when a moderator's control phrase is processed,
\* and a control phrase of a sender who is no moderator changes nothing and
\* sends nothing.
ControlPhraseGate ==
    /\ ban_mode_enabled # prev.ban_mode_enabled
          => /\ ChatProcessed
             /\ Msg.msg \in ControlPhrases
             /\ WasMod(Msg.nickname)
    /\ (ChatProcessed /\ Msg.msg \in ControlPhrases /\ ~WasMod(Msg.nickname))
          => /\ ban_mode_enabled = prev.ban_mode_enabled
             /\ outbox = <<>>

\* What the control phrase of the moderator who sent Msg has done.
ModeratorToggled ==
    /\ Msg.msg = HAMMER_ON
          => ban_mode_enabled /\ SentTexts = <<ANNOUNCE_ON>>
    /\ Msg.msg = HAMMER_OFF
          => ~ban_mode_enabled /\ SentTexts = <<ANNOUNCE_OFF>>

\* C3 as stated: the gate, and every moderator's control phrase sets the ban
\* mode and sends the announcement.
C3_Original ==
    /\ ControlPhraseGate
    /\ (ChatProcessed /\ Msg.msg \in ControlPhrases /\ WasMod(Msg.nickname))
          => ModeratorToggled

\* C3, amended: the gate; the control phrase of a moderator other than the
\* bot sets the ban mode and sends the announcement; a control phrase sent
\* under the bot's own nickname changes nothing and sends nothing, moderator
\* or not.
C3_ControlPhraseGating ==
    /\ ControlPhraseGate
    /\ (/\ ChatProcessed
        /\ Msg.msg \in ControlPhrases
        /\ WasMod(Msg.nickname)
        /\ Msg.nickname # my_nickname)
          => ModeratorToggled
    /\ (ChatProcessed /\ Msg.msg \in ControlPhrases
        /\ Msg.nickname = my_nickname)
          => /\ ban_mode_enabled = prev.ban_mode_enabled
             /\ outbox = <<>>

C3_Witness ==
    /\ ChatProcessed
    /\ Msg.msg = HAMMER_OFF
    /\ Msg.nickname = User
    /\ WasMod(User)
    /\ prev.ban_mode_enabled
    /\ ~ban_mode_enabled
    /\ SentTexts = <<ANNOUNCE_OFF>>

\* C4: a "/ban" line is sent only for a chat text processed while the ban
\* mode is on and whose trimmed text is, as a whole and case-sensitively, an
\* entry of the ban list; "ban me! " is sanctioned exactly when "ban me!"
\* would be, and "Ban me!" and "please ban me!" never are.
C4_SanctionOnlyOnExactMatch ==
    /\ (pc = "loop" /\ SentBans # {})
          => /\ Msg.kind = "Message"
             /\ prev.ban_mode_enabled
             /\ \E i \in 1..Len(ban_list) : Trim(Msg.msg) = ban_list[i]
    /\ (ChatProcessed /\ Msg.msg \in {BanMe, BanMe \o <<" ">>})
          => (SentBans # {}
                <=> /\ prev.ban_mode_enabled
                    /\ Msg.nickname # my_nickname
                    /\ ~ProtectedWith(Msg))
    /\ (/\ ChatProcessed
        /\ Msg.msg \in {<<"B","a","n"," ","m","e","!">>,
                        <<"p","l","e","a","s","e"," ","b","a","n"," ","m",
                          "e","!">>})
          => outbox = <<>>

C4_Witness ==
    /\ ChatProcessed
    /\ Msg.msg = <<"B","a","n"," ","m","e","!">>
    /\ Msg.nickname = User
    /\ prev.ban_mode_enabled
    /\ ~ProtectedWith(Msg)
    /\ outbox = <<>>
    /\ all_users[User].auto_ban_date = None

\* C5: no nickname is ever sent more than one "/ban" line, and an
\* auto_ban_date that is set is neither cleared nor overwritten by the
\* processing of any message.
C5_AtMostOnceSanction ==
    /\ \A n \in DOMAIN ban_count : ban_count[n] <= 1
    /\ \A n \in DOMAIN prev.all_users :
          HadBanDate(n)
             => /\ n \in DOMAIN all_users
                /\ all_users[n].auto_ban_date = prev.all_users[n].auto_ban_date

C5_Witness ==
    /\ ChatProcessed
    /\ Msg.nickname = User
    /\ Msg.msg = BanMe
    /\ prev.ban_mode_enabled
    /\ ~WasMod(User) /\ ~PayingWith(Msg)
    /\ HadBanDate(User)
    /\ outbox = <<>>
    /\ ban_count[User] = 1

\* C6: an entry that is paying stays paying whatever message is processed.
C6_PayingMonotonic ==
    \A n \in DOMAIN prev.all_users :
       WasPaying(n) => n \in DOMAIN all_users /\ all_users[n].is_paying

C6_Witness ==
    /\ ChatProcessed
    /\ Msg.nickname = User
    /\ WasPaying(User)
    /\ Msg.tags.is_subscriber = Some(FALSE)
    /\ all_users[User].is_paying

\* The chat text just processed and the tag list of the raw message it was
\* made from.
PrivmsgProcessed ==
    /\ ChatProcessed
    /\ item.kind = "Ok"
    /\ item.raw.command.name = "PRIVMSG"

RawTags == Unwrap(item.raw.tags)

\* The value of the last tag of the list with this key that carries a value.
LastValue(tags, key) ==
    LET at == {i \in 1..Len(tags) : tags[i][1] = key /\ IsSome(tags[i][2])}
    IN  IF at = {} THEN None
        ELSE tags[CHOOSE i \in at : \A j \in at : j <= i][2]

\* C7 as stated: a subscriber=1 or turbo=1 tag gives Some(true) and a paying
\* sender in the roster; another value gives Some(false); and without a "1"
\* the sender's is_paying is what it was.
C7_Original ==
    PrivmsgProcessed =>
       \A key \in {"subscriber", "turbo"} :
          LET flag == IF key = "subscriber" THEN Msg.tags.is_subscriber
                      ELSE Msg.tags.is_turbo
          IN  \A i \in 1..Len(RawTags) :
                 RawTags[i][1] = key /\ IsSome(RawTags[i][2])
                    => IF RawTags[i][2] = Some(<<"1">>)
                       THEN /\ flag = Some(TRUE)
                            /\ Msg.nickname \in DOMAIN all_users
                            /\ all_users[Msg.nickname].is_paying
                       ELSE flag = Some(FALSE)

\* C7, amended: is_subscriber and is_turbo are Some(v = "1") for the value v
\* of the last subscriber or turbo tag that carries a value, and None
\* without one; after process_message a sender other than the bot is in the
\* roster, paying if it was or if either flag is Some(true), and a message
\* of the bot leaves the roster as it was.
C7_TagsToPaying ==
    PrivmsgProcessed =>
       LET sub == LastValue(RawTags, "subscriber")
           turbo == LastValue(RawTags, "turbo")
           n == Msg.nickname
       IN  /\ Msg.tags.is_subscriber =
                 (IF IsSome(sub) THEN Some(sub = Some(<<"1">>)) ELSE None)
           /\ Msg.tags.is_turbo =
                 (IF IsSome(turbo) THEN Some(turbo = Some(<<"1">>)) ELSE None)
           /\ n # my_nickname
                 => /\ n \in DOMAIN all_users
                    /\ all_users[n].is_paying
                          <=> \/ WasPaying(n)
                              \/ sub = Some(<<"1">>)
                              \/ turbo = Some(<<"1">>)
           /\ n = my_nickname => all_users = prev.all_users

C7_Witness ==
    /\ PrivmsgProcessed
    /\ RawTags = <<Tg("subscriber", <<"1">>)>>
    /\ Msg.nickname = User
    /\ ~WasKnown(User)
    /\ Msg.tags.is_subscriber = Some(TRUE)
    /\ all_users[User].is_paying

\* C8: Operator(nickname, is_op) leaves the entry of nickname with is_mod =
\* is_op; an entry made for it is not paying and has no auto_ban_date, and
\* an entry that was there keeps its is_paying and auto_ban_date.
C8_OperatorSetsMod ==
    (pc = "loop" /\ Msg.kind = "Operator") =>
       LET n == Msg.nickname IN
       /\ n \in DOMAIN all_users
       /\ all_users[n].is_mod = Msg.is_op
       /\ ~WasKnown(n)
             => /\ all_users[n].is_paying = FALSE
                /\ all_users[n].auto_ban_date = None
       /\ WasKnown(n)
             => /\ all_users[n].is_paying = prev.all_users[n].is_paying
                /\ all_users[n].auto_ban_date =
                      prev.all_users[n].auto_ban_date

C8_Witness ==
    /\ pc = "loop"
    /\ Msg.kind = "Operator"
    /\ Msg.nickname = User
    /\ Msg.is_op = FALSE
    /\ WasMod(User)
    /\ WasPaying(User)
    /\ HadBanDate(User)
    /\ ~all_users[User].is_mod

\* C9: user_ensure_exists on a nickname of the roster returns true and
\* leaves the roster as it is; on another nickname it returns false and adds
\* an entry that is no moderator, not paying, without auto_ban_date and with
\* the nickname as display name; a second call returns true and changes
\* nothing.
C9_EnsureIdempotentUpsert ==
    IsSome(ensured) =>
       LET e == Unwrap(ensured)
           again == UserEnsureExists(e.after, e.nickname)
       IN  /\ e.existed <=> e.nickname \in DOMAIN e.before
           /\ e.existed => e.after = e.before
           /\ ~e.existed
                 => /\ DOMAIN e.after = DOMAIN e.before \cup {e.nickname}
                    /\ \A n \in DOMAIN e.before : e.after[n] = e.before[n]
                    /\ e.after[e.nickname] =
                          [nickname |-> e.nickname,
                           display_name |-> e.nickname,
                           is_mod |-> FALSE, is_paying |-> FALSE,
                           auto_ban_date |-> None]
           /\ again.existed
           /\ again.users = e.after

C9_Witness ==
    /\ IsSome(ensured)
    /\ Unwrap(ensured).nickname = User
    /\ Unwrap(ensured).existed
    /\ Unwrap(ensured).before[User].is_paying
    /\ IsSome(Unwrap(ensured).before[User].auto_ban_date)
    /\ Unwrap(ensured).after = Unwrap(ensured).before

\* C10: the processing of a message removes no nickname from the roster, and
\* every entry is stored under its own nickname.
C10_UsersNeverRemoved ==
    /\ DOMAIN prev.all_users \subseteq DOMAIN all_users
    /\ \A n \in DOMAIN all_users : all_users[n].nickname = n

C10_Witness ==
    /\ pc = "loop"
    /\ Msg.kind \in {"Leave", "Ban", "Timeout"}
    /\ Msg.nickname = User
    /\ WasKnown(User)
    /\ User \in DOMAIN all_users
    /\ Cardinality(DOMAIN all_users) = 3

\* C11: right after Chat::new, before run has done anything, the roster holds
\* exactly one entry, stored under the lowercased channel name ("chan" for the
\* configured "Chan"); the entry is a moderator, not paying and without
\* auto_ban_date; the ban mode is off and the three capability flags are
\* false.
C11_InitialState ==
    pc = "start" =>
       LET owner == <<"c","h","a","n">> IN
       /\ DOMAIN all_users = {owner}
       /\ all_users[owner].nickname = owner
       /\ all_users[owner].is_mod = TRUE
       /\ all_users[owner].is_paying = FALSE
       /\ all_users[owner].auto_ban_date = None
       /\ ban_mode_enabled = FALSE
       /\ cap_membership_enabled = FALSE
       /\ cap_commands_enabled = FALSE
       /\ cap_tags_enabled = FALSE

C11_Witness ==
    /\ pc = "start"
    /\ Cardinality(DOMAIN all_users) = 1
    /\ ConfChannel # <<"c","h","a","n">>
    /\ all_users[<<"c","h","a","n">>].is_mod
    /\ ~ban_mode_enabled

\* The item read is a PRIVMSG.
PrivmsgRead == item.kind = "Ok" /\ item.raw.command.name = "PRIVMSG"

\* A raw message that lacks the tags, the prefix, or a '!' in its prefix.
LacksSender(raw) ==
    IF raw.tags = None \/ raw.prefix = None THEN TRUE
    ELSE \A i \in 1..Len(Unwrap(raw.prefix)) : Unwrap(raw.prefix)[i] # "!"

\* The item read was dropped by parse_message: read_next_message goes on to
\* the next item, process_message is not called, and the fields of Chat are
\* what they were, with nothing sent.
ItemDropped ==
    /\ pc = "skip"
    /\ message = None
    /\ ensured = None
    /\ outbox = <<>>
    /\ ChatFields = prev

\* C12: a PRIVMSG without tags, without prefix or with a prefix that holds no
\* '!' is dropped by parse_message: process_message is not called for it, the
\* roster, the ban mode and the capability flags stay as they were and
\* nothing is sent.
C12_MalformedChatTextDropped ==
    (PrivmsgRead /\ LacksSender(item.raw)) => ItemDropped

C12_Witness ==
    /\ PrivmsgRead
    /\ item.raw.tags = Some(<<>>)
    /\ item.raw.prefix = Some(BadPrefix)
    /\ item.raw.command.msg = BanMe
    /\ prev.ban_mode_enabled
    /\ ban_mode_enabled
    /\ pc = "skip"
    /\ outbox = <<>>

\* The item read is of a command whose nickname is taken from the prefix.
NicknameRead ==
    /\ item.kind = "Ok"
    /\ item.raw.command.name \in {"PRIVMSG", "JOIN", "PART"}

\* The positions of '!' in a prefix, and the text before the first of them.
Bangs(p) == {i \in 1..Len(p) : p[i] = "!"}
BeforeFirstBang(p) ==
    SubSeq(p, 1, (CHOOSE i \in Bangs(p) : \A j \in Bangs(p) : i <= j) - 1)

\* The ChatMessage variant made of a command.
KindOf(name) ==
    CASE name = "PRIVMSG" -> "Message"
      [] name = "JOIN" -> "Join"
      [] name = "PART" -> "Leave"

\* C13: the nickname of a chat text, a Join and a Leave is the part of the
\* prefix before its first '!', with its case kept ("MyUser" for
\* "MyUser!myuser@tmi.twitch.tv"); a prefix without '!', or no prefix, gives
\* no nickname and the item is dropped.
C13_NicknameExtraction ==
    NicknameRead =>
       LET raw == item.raw
           p == Unwrap(raw.prefix)
           wellformed == raw.command.name = "PRIVMSG"
                            => /\ IsSome(raw.tags)
                               /\ FromTags(Unwrap(raw.tags)).ok
       IN  IF raw.prefix = None THEN ItemDropped
           ELSE IF Bangs(p) = {} THEN ItemDropped
           ELSE /\ wellformed
                   => /\ pc \in {"process", "loop"}
                      /\ IsSome(message)
                      /\ Msg.kind = KindOf(raw.command.name)
                      /\ Msg.nickname = BeforeFirstBang(p)
                      /\ p = MyUserPrefix
                            => Msg.nickname = <<"M","y","U","s","e","r">>
                /\ ~wellformed => ItemDropped

C13_Witness ==
    /\ NicknameRead
    /\ item.raw.command.name = "PART"
    /\ item.raw.prefix = Some(<<"U","!","s","!">>)
    /\ pc = "loop"
    /\ Msg.kind = "Leave"
    /\ Msg.nickname = <<"U">>

\* The item read is a CLEARCHAT.
ClearChatRead ==
    /\ item.kind = "Ok"
    /\ item.raw.command.name = "Raw"
    /\ item.raw.command.cmdname = "CLEARCHAT"

\* parse_message has made a ChatMessage of the item read.
ItemClassified == pc \in {"process", "loop"} /\ IsSome(message)

HasBadNumber(tags) ==
    \E i \in 1..Len(tags) :
       /\ tags[i][1] \in {"room-id", "user-id"}
       /\ IsSome(tags[i][2])
       /\ ~U32FromStr(Unwrap(tags[i][2])).ok

\* C15: a PRIVMSG with a room-id or user-id tag whose value is no number is
\* dropped whole, wherever the tag stands in the list: no Message is made of
\* it, process_message is not called, no roster entry is made or updated,
\* the ban mode stays and nothing is sent.
C15_BadNumericTagDropsMessage ==
    (/\ PrivmsgRead
     /\ IsSome(item.raw.tags)
     /\ HasBadNumber(Unwrap(item.raw.tags)))
    => ItemDropped

C15_Witness ==
    /\ PrivmsgRead
    /\ item.raw.tags = Some(<<Tg("subscriber", <<"1">>),
                              Tg("room-id", <<"x">>)>>)
    /\ item.raw.prefix = Some(PrefixOf(User))
    /\ item.raw.command.msg = BanMe
    /\ prev.ban_mode_enabled
    /\ User \notin DOMAIN all_users
    /\ pc = "skip"
    /\ outbox = <<>>

\* Where the loop of run stands with the item read: an Err and a raw message
\* that parse_message drops are skipped, an end of the source ends the loop,
\* and the loop has ended only at the end of the source, with nothing left in
\* it.
LoopPosition ==
    /\ item.kind = "Err" => pc = "skip"
    /\ (item.kind = "Ok" /\ ParseMessage(item.raw) = None)
          => pc = "skip" /\ message = None
    /\ item.kind = "End" => pc = "done"
    /\ pc = "done" => item.kind = "End" /\ source = Some(0)

\* After a skipped item read_next_message asks the source for the next one,
\* with the fields of Chat untouched.
SkipGoesOn == pc = "skip" => pc' = "read" /\ UNCHANGED <<chat, source>>

\* C16: a read error does not end the loop of run, which goes on to ask for
\* the next item; a raw message that parse_message drops is skipped; the loop
\* ends only when the source has reached its end; and on a source that yields
\* finitely many items the loop, once entered, ends.
C16_LoopTermination ==
    /\ []LoopPosition
    /\ [][SkipGoesOn]_vars
    /\ (pc = "read") ~> (pc = "done")

C16_Witness ==
    /\ pc = "done"
    /\ item.kind = "End"
    /\ source = Some(0)
    /\ ban_mode_enabled
    /\ Cardinality(DOMAIN all_users) = 2

\* The message at hand: while process_message is due or has just run, it is
\* the one ChatMessage parse_message made of the item read last; before it
\* runs, nothing of the message is applied or sent.
OneMessageAtHand ==
    /\ Len(message) <= 1
    /\ pc \in {"process", "loop"}
          => /\ item.kind = "Ok"
             /\ IsSome(message)
             /\ message = ParseMessage(item.raw)
    /\ pc = "process" => ChatFields = prev /\ outbox = <<>>
    /\ pc \in {"start", "read"}
          => item.kind = "None" /\ message = None /\ outbox = <<>>

\* One step of run: the source is asked only with no item at hand; a message
\* read is processed in the next step, state updates and sends together, and
\* only then does the loop go round; nothing else changes the fields of Chat
\* or sends.
OneAtATime ==
    /\ (item' # item /\ item'.kind # "None")
          => pc = "read" /\ item.kind = "None" /\ message = None
    /\ pc = "process"
          => pc' = "loop" /\ item' = item /\ message' = message
    /\ pc = "loop" => pc' = "read" /\ UNCHANGED chat
    /\ (chat' # chat \/ (outbox' # outbox /\ outbox' # <<>>))
          => pc = "process"

\* C17: a raw message yields at most one ChatMessage; a ChatMessage read is
\* processed whole, sends included, before the source is asked for the next
\* item; so messages are processed in the order the source delivers them and
\* never two at a time.
C17_SequentialProcessing ==
    /\ []OneMessageAtHand
    /\ [][OneAtATime]_vars

C17_Witness ==
    /\ pc = "loop"
    /\ item.kind = "Ok"
    /\ message = ParseMessage(item.raw)
    /\ Msg.kind = "Message"
    /\ Len(outbox) = 1
    /\ ~outbox[1].ok
    /\ ChatFields # prev

\* process_message has just run and the send it made has failed.
SendFailed == pc = "loop" /\ outbox # <<>> /\ ~outbox[1].ok

\* What a failed send leaves behind: the text was handed to send once; the
\* sender of a "/ban" line that failed has its auto_ban_date set all the
\* same, and a failed announcement leaves the ban mode at its new value.
FailedSendStands ==
    SendFailed =>
       LET text == outbox[1].text
           n == BanTarget(text)
       IN  /\ Len(outbox) = 1
           /\ Msg.kind = "Message"
           /\ IsBanLine(text)
                 => /\ n = Msg.nickname
                    /\ ~HadBanDate(n)
                    /\ IsSome(all_users[n].auto_ban_date)
                    /\ ban_count[n] = 1
           /\ text = ANNOUNCE_ON
                 => /\ ban_mode_enabled
                    /\ all_users[Msg.nickname].is_mod
           /\ text = ANNOUNCE_OFF
                 => /\ ~ban_mode_enabled
                    /\ all_users[Msg.nickname].is_mod
           /\ IsBanLine(text) \/ text \in {ANNOUNCE_ON, ANNOUNCE_OFF}

\* A nickname a "/ban" line was ever handed to send for, sent or not, keeps
\* its auto_ban_date and is handed no second line.
BanAttemptsStand ==
    \A n \in DOMAIN ban_count :
       /\ ban_count[n] = 1
       /\ n \in DOMAIN all_users
       /\ IsSome(all_users[n].auto_ban_date)

\* After a failed send the loop goes round with the fields of Chat as
\* process_message left them.
FailedSendGoesOn == SendFailed => pc' = "read" /\ UNCHANGED chat

\* C18: a send that fails is not repeated and undoes nothing: the sender of a
\* "/ban" line that failed has its auto_ban_date set and is never handed a
\* second line, a failed announcement leaves the ban mode at its new value,
\* and run goes on to the next item.
C18_SendFailureKeepsState ==
    /\ [](FailedSendStands /\ BanAttemptsStand)
    /\ [][FailedSendGoesOn]_vars

C18_Witness ==
    /\ SendFailed
    /\ outbox[1].text = BanCommand(User)
    /\ IsSome(all_users[User].auto_ban_date)
    /\ ~HadBanDate(User)
    /\ ban_count[User] = 1

\* The message at hand is InvalidAuthToken.
AuthTokenRejected ==
    pc \in {"process", "loop"} /\ Msg.kind = "InvalidAuthToken"

\* InvalidAuthToken, before and after process_message, leaves the fields of
\* Chat as they were when it was read, and nothing is sent; and the loop has
\* ended only at the end of the source.
AuthTokenRejectedNoEffect ==
    /\ AuthTokenRejected
          => /\ ChatFields = prev
             /\ outbox = <<>>
             /\ ensured = None
    /\ pc = "done" => item.kind = "End"

\* process_message on InvalidAuthToken returns to the loop, which goes round
\* and asks the source for the next item.
AuthTokenRejectedGoesOn ==
    AuthTokenRejected
       => /\ pc' = (IF pc = "process" THEN "loop" ELSE "read")
          /\ UNCHANGED <<chat, source, ban_count>>

\* C19: process_message on InvalidAuthToken changes neither the roster, nor
\* the ban mode, nor a capability flag, sends nothing and does not end the
\* loop of run, which goes on reading until the source ends.
C19_InvalidAuthTokenNoEffect ==
    /\ []AuthTokenRejectedNoEffect
    /\ [][AuthTokenRejectedGoesOn]_vars

C19_Witness ==
    /\ pc = "loop"
    /\ Msg.kind = "InvalidAuthToken"
    /\ ban_mode_enabled
    /\ cap_tags_enabled
    /\ User \in DOMAIN all_users
    /\ ChatFields = prev
    /\ outbox = <<>>

\* process_message has just run on a Capability message.
CapabilityProcessed == pc = "loop" /\ Msg.kind = "Capability"

\* The capability name is one of the names of the message.
Named(cap) == \E i \in 1..Len(Msg.caps) : Msg.caps[i] = cap

\* Capability{names} leaves each flag true if it was, or if its name is among
\* the names, whatever other names come with it, and otherwise false; the
\* roster and the ban mode are as before and nothing is sent.
CapabilityFlagsSet ==
    CapabilityProcessed =>
       /\ cap_membership_enabled
             = (prev.cap_membership_enabled \/ Named(CAP_MEMBERSHIP))
       /\ cap_commands_enabled
             = (prev.cap_commands_enabled \/ Named(CAP_COMMANDS))
       /\ cap_tags_enabled = (prev.cap_tags_enabled \/ Named(CAP_TAGS))
       /\ all_users = prev.all_users
       /\ ban_mode_enabled = prev.ban_mode_enabled
       /\ outbox = <<>>

\* No step sets a capability flag that is true back to false.
CapabilityFlagsStay ==
    /\ cap_membership_enabled => cap_membership_enabled'
    /\ cap_commands_enabled => cap_commands_enabled'
    /\ cap_tags_enabled => cap_tags_enabled'

\* C20: the three capability flags are set independently and stay set:
\* Capability{names} sets exactly the flags whose names are in the list,
\* leaves the others as they were and ignores any other name, and no message
\* sets a flag back to false; the roster and the ban mode are untouched.
C20_CapabilityFlags ==
    /\ []CapabilityFlagsSet
    /\ [][CapabilityFlagsStay]_vars

C20_Witness ==
    /\ CapabilityProcessed
    /\ Msg.caps = << <<"twitch.tv/other">>, CAP_MEMBERSHIP >>
    /\ ~prev.cap_membership_enabled
    /\ ~prev.cap_commands_enabled
    /\ prev.cap_tags_enabled
    /\ cap_membership_enabled
    /\ ~cap_commands_enabled
    /\ cap_tags_enabled
    /\ ban_mode_enabled
    /\ Cardinality(DOMAIN all_users) > 1

\* C21: a chat text of a moderator (other than the bot) whose trimmed text is
\* a control phrase, such as ":hammer on " with a space after it, sets the
\* ban mode as the phrase says and sends the announcement.
C21_TrimmedControlPhrase ==
    (/\ ChatProcessed
     /\ Msg.nickname # my_nickname
     /\ WasMod(Msg.nickname))
    => /\ Trim(Msg.msg) = HAMMER_ON
             => ban_mode_enabled /\ SentTexts = <<ANNOUNCE_ON>>
       /\ Trim(Msg.msg) = HAMMER_OFF
             => ~ban_mode_enabled /\ SentTexts = <<ANNOUNCE_OFF>>

\* C22: the display name of a roster entry is the nickname until a chat text
\* of that user carries a display-name tag with a value; once that chat text
\* is processed the display name is the value of the tag, and the color of
\* the message's tag data is the value of its color tag, None without one.
C22_DisplayNameTracked ==
    (PrivmsgProcessed /\ Msg.nickname # my_nickname) =>
       LET n == Msg.nickname
           shown == LastValue(RawTags, "display-name")
       IN  /\ IsSome(shown) => all_users[n].display_name = Unwrap(shown)
           /\ (~IsSome(shown) /\ ~WasKnown(n))
                 => all_users[n].display_name = n
           /\ (~IsSome(shown) /\ WasKnown(n))
                 => all_users[n].display_name = prev.all_users[n].display_name
           /\ Msg.tags.color = LastValue(RawTags, "color")

\* The item read is a MODE.
ModeRead == item.kind = "Ok" /\ item.raw.command.name = "MODE"

\* C23: a MODE with a target nickname is Operator{nickname, true} for the
\* mode "+o" and Operator{nickname, false} for "-o"; with another mode, or
\* without target nickname, it is dropped, and no is_mod of the roster (nor
\* anything else) changes for it.
C23_ModeClassification ==
    ModeRead =>
       LET mode == item.raw.command.mode
           target == item.raw.command.nickname
       IN  IF IsSome(target) /\ mode \in {"+o", "-o"}
           THEN /\ ItemClassified
                /\ Msg = [kind |-> "Operator", nickname |-> Unwrap(target),
                          is_op |-> (mode = "+o")]
           ELSE /\ ItemDropped
                /\ \A n \in DOMAIN all_users :
                      all_users[n].is_mod = prev.all_users[n].is_mod

C23_Witness ==
    /\ ModeRead
    /\ item.raw.command.mode = "+v"
    /\ item.raw.command.nickname = Some(User)
    /\ pc = "skip"
    /\ User \in DOMAIN all_users
    /\ ~all_users[User].is_mod

\* The ChatMessage variants process_message has an arm with an effect for.
ActedOn == {"Message", "Operator", "Capability"}

\* C24: process_message on a ChatMessage that is no Message, Operator or
\* Capability (a Join, Leave, Clear, Timeout, Ban, RoomState,
\* InvalidAuthToken or any notice) makes and changes no roster entry, leaves
\* the ban mode and the capability flags as they were and sends nothing.
C24_OtherEventsNoOp ==
    (pc = "loop" /\ Msg.kind \notin ActedOn)
    => /\ ChatFields = prev
       /\ outbox = <<>>
       /\ ensured = None

C24_Witness ==
    /\ pc = "loop"
    /\ Msg = [kind |-> "Join", nickname |-> <<"U","s">>]
    /\ <<"U","s">> \notin DOMAIN all_users
    /\ ban_mode_enabled
    /\ cap_membership_enabled
    /\ ChatFields = prev


\* C25: processing one ChatMessage sends at most one line, and a line sent
\* is the announcement that the ban mode is on, the announcement that it is
\* off, or "/ban <nickname>" with the nickname of the author of the Message
\* being processed.
C25_OneKnownLinePerEvent ==
    /\ Len(outbox) <= 1
    /\ \A i \in 1..Len(outbox) :
          /\ pc = "loop"
          /\ \/ outbox[i].text \in {ANNOUNCE_ON, ANNOUNCE_OFF}
             \/ /\ Msg.kind = "Message"
                /\ outbox[i].text = <<"/","b","a","n"," ">> \o Msg.nickname

C25_Witness ==
    /\ pc = "loop"
    /\ Msg.kind = "Message"
    /\ Msg.nickname = User
    /\ Len(outbox) = 1
    /\ outbox[1].text = <<"/","b","a","n"," ">> \o User
    /\ ~outbox[1].ok


\* The ban-duration values of a tag list that u32::from_str accepts.
ValidDurations(tags) ==
    { U32FromStr(Unwrap(tags[i][2])).val :
        i \in { j \in 1..Len(tags) :
                  /\ tags[j][1] = "ban-duration"
                  /\ IsSome(tags[j][2])
                  /\ U32FromStr(Unwrap(tags[j][2])).ok } }

\* C26: a CLEARCHAT with a target nickname and a tag list, whatever its
\* length and with repeated or valueless keys, is never dropped: it is
\* Timeout{nickname, d, reason} when a ban-duration tag with a valid integer
\* d is among the tags, and Ban{nickname, reason} otherwise.
C26_ValidDurationGivesTimeout ==
    (/\ ClearChatRead
     /\ IsSome(item.raw.command.suffix)
     /\ IsSome(item.raw.tags))
    => /\ ItemClassified
       /\ Msg.nickname = Unwrap(item.raw.command.suffix)
       /\ IF ValidDurations(RawTags) # {}
          THEN Msg.kind = "Timeout" /\ Msg.duration \in ValidDurations(RawTags)
          ELSE Msg.kind = "Ban"


\* C27: a chat text whose author is exactly the bot's nickname changes
\* nothing: no roster entry is made or updated, the ban mode stays even when
\* the text is a control phrase and the bot's roster entry is a moderator,
\* and nothing is sent even when the text is a banned phrase.  The comparison
\* is exact: a chat text of an author whose nickname differs from the bot's,
\* be it by case only, is not ignored and its author is in the roster
\* afterwards.
C27_OwnMessagesIgnored ==
    ChatProcessed =>
       IF Msg.nickname = my_nickname
       THEN /\ ChatFields = prev
            /\ outbox = <<>>
            /\ ensured = None
       ELSE Msg.nickname \in DOMAIN all_users

C27_Witness ==
    /\ ChatProcessed
    /\ Msg.nickname = my_nickname
    /\ Msg.msg = HAMMER_OFF
    /\ my_nickname \in DOMAIN all_users
    /\ all_users[my_nickname].is_mod
    /\ ban_mode_enabled
    /\ BotCased \in DOMAIN all_users


\* C28: neither a read error of the message source nor a failed send ends
\* the program with a panic, in the loop of Chat::run and in the loop of
\* main: the event is not acted on and the loop goes on to the next one.
C28_FailuresNeverCrash ==
    /\ item.kind = "Err" => pc # "panicked"
    /\ (outbox # <<>> /\ ~outbox[1].ok) => pc # "panicked"


\* The tags of the message call its sender a moderator: mod=1 or
\* user-type=mod.
TaggedAsMod(m) ==
    \/ m.tags.is_mod = Some(TRUE)
    \/ /\ IsSome(m.tags.user_type)
       /\ Unwrap(m.tags.user_type).variant = "Mod"

\* C29: processing a chat text changes the is_mod of no roster entry, and
\* the entry it makes for a new sender has is_mod false.  So a sender whose
\* tags carry mod=1 or user-type=mod and whose entry is no moderator's does
\* not change the ban mode with a control phrase, and is banned for a banned
\* phrase while the ban mode is on unless paying or banned before.
C29_ModeratorNotFromTags ==
    ChatProcessed =>
       /\ \A n \in DOMAIN all_users : all_users[n].is_mod = WasMod(n)
       /\ (/\ Msg.nickname # my_nickname
           /\ TaggedAsMod(Msg)
           /\ ~WasMod(Msg.nickname))
          => /\ ban_mode_enabled = prev.ban_mode_enabled
             /\ SentTexts \notin {<<ANNOUNCE_ON>>, <<ANNOUNCE_OFF>>}
             /\ (/\ prev.ban_mode_enabled
                 /\ Msg.msg \notin ControlPhrases
                 /\ Trim(Msg.msg) \in BannedPhrases
                 /\ ~PayingWith(Msg)
                 /\ ~HadBanDate(Msg.nickname))
                => SentTexts = << <<"/","b","a","n"," ">> \o Msg.nickname >>

C29_Witness ==
    /\ ChatProcessed
    /\ Msg.nickname = User
    /\ Msg.tags.is_mod = Some(TRUE)
    /\ Unwrap(Msg.tags.user_type).variant = "Mod"
    /\ Msg.msg = BanMe
    /\ SentTexts = << <<"/","b","a","n"," ">> \o User >>
    /\ ~all_users[User].is_mod
    /\ all_users[Chan].is_mod


\* What process_message does with a chat text follows the is_mod its sender's
\* roster entry had when the text came.  A sender who is no moderator then
\* does not change the ban mode, and is banned for a banned phrase while the
\* ban mode is on unless paying or banned before; a sender who is one sets
\* the ban mode with a control phrase and is not banned.
AuthorityFollowsIsMod ==
    IF WasMod(Msg.nickname)
    THEN /\ Msg.msg = HAMMER_ON
            => ban_mode_enabled /\ SentTexts = <<ANNOUNCE_ON>>
         /\ Msg.msg = HAMMER_OFF
            => ~ban_mode_enabled /\ SentTexts = <<ANNOUNCE_OFF>>
         /\ SentBans = {}
    ELSE /\ ban_mode_enabled = prev.ban_mode_enabled
         /\ SentTexts \notin {<<ANNOUNCE_ON>>, <<ANNOUNCE_OFF>>}
         /\ (/\ prev.ban_mode_enabled
             /\ Msg.msg \notin ControlPhrases
             /\ Trim(Msg.msg) \in BannedPhrases
             /\ ~PayingWith(Msg)
             /\ ~HadBanDate(Msg.nickname))
            => SentTexts = << <<"/","b","a","n"," ">> \o Msg.nickname >>

\* The is_mod of a roster entry changes only when process_message runs on an
\* Operator message for its nickname, and then to the is_op of the message;
\* and no entry leaves the roster.
IsModFollowsOperator ==
    \A n \in DOMAIN all_users :
       /\ n \in DOMAIN all_users'
       /\ all_users'[n].is_mod # all_users[n].is_mod
          => /\ pc = "process"
             /\ Msg.kind = "Operator"
             /\ Msg.nickname = n
             /\ all_users'[n].is_mod = Msg.is_op

\* C30 as stated, for every nickname X: once X's is_mod is false X's control
\* phrases do not change the ban mode and X is banned for a banned phrase,
\* and once it is true again X is protected and sets the ban mode.
C30_Original == ChatProcessed => AuthorityFollowsIsMod

\* C30: for every nickname X other than the bot's own, authority and
\* protection follow X's is_mod at the time of each message, and X's is_mod
\* is what the last Operator message for X made it (for the streamer, what
\* Chat::new made it until the first one): after Operator(X, false) X's
\* control phrases do not change the ban mode and X is banned for a banned
\* phrase while the ban mode is on unless paying or banned before; after a
\* later Operator(X, true) X is protected again and sets the ban mode.
C30_AuthorityFollowsIsMod ==
    /\ [](ChatProcessed /\ Msg.nickname # my_nickname
            => AuthorityFollowsIsMod)
    /\ [][IsModFollowsOperator]_vars

C30_Witness ==
    /\ ChatProcessed
    /\ Msg.nickname = Chan
    /\ ~WasMod(Chan)
    /\ Msg.msg = BanMe
    /\ SentTexts = << <<"/","b","a","n"," ">> \o Chan >>
    /\ IsSome(all_users[Chan].auto_ban_date)


\* process_message has just sent a "/ban" line.
BanSent == pc = "loop" /\ SentBans # {}

\* C31 as stated: whenever a "/ban" line is sent, a Message with the on
\* phrase from a sender who was a moderator then has been processed before,
\* and no Message with the off phrase from a sender who was a moderator then
\* has been processed since.
C31_Original == BanSent => armed.any_off

\* C31: the ban mode starts off, and whenever a "/ban" line is sent, a
\* Message with the on phrase from a sender who was a moderator then has been
\* processed before, and no Message with the off phrase from a moderator
\* other than the bot has been processed since.
C31_NoSanctionBeforeActivation ==
    /\ pc = "start" => ~ban_mode_enabled
    /\ BanSent => armed.others_off

C31_Witness ==
    /\ BanSent
    /\ Msg.nickname = User
    /\ armed.others_off
    /\ armed.any_off
    /\ ban_count = Insert(<<>>, User, 1)

=============================================================================
